---- MODULE Spec2Model ----
(***************************************************************************)
(* Parcel feasibility pipeline of the NSW Property Intelligence Engine     *)
(* (backend/app): constraint severity scoring, typology gates, yield,      *)
(* CDC and DA pathway assessments and the overall risk rating.             *)
(*                                                                         *)
(* Fixed-point units (the Python code works on floats):                    *)
(*   area_sqm                whole square metres                           *)
(*   frontage_m              tenths of a metre     (round(..., 1))         *)
(*   max_height_m            tenths of a metre     (8.5 m  = 85)           *)
(*   mean_gradient_percent   tenths of a percent   (round(..., 1))         *)
(*   regularity_index        thousandths           (round(..., 3))         *)
(*   fsr_control             hundredths            (0.7    = 70)           *)
(*   max_gfa_sqm             tenths of a sqm       (round(..., 1))         *)
(* Every threshold of the code is written in the unit of the quantity it   *)
(* is compared with.  The input records carry every key their producers    *)
(* in pipeline/runner.py write, so a dict.get default is taken only where  *)
(* a producer writes None (bushfire_category).                             *)
(***************************************************************************)
EXTENDS Integers, Sequences, FiniteSets, TLC

VARIABLES
    parcel_data,          \* [area_sqm]
    geometry_data,        \* [frontage_m, regularity_index, is_corner_lot]
    constraints,          \* the constraint flags of evaluate_constraints
    slope_data,           \* [mean_gradient_percent, falls_to_street]
    zone_code,            \* LEP zone code
    envelope_data,        \* [max_gfa_sqm, fsr_control, max_height_m]
    typologies,           \* result of determine_allowed_typologies
    constraint_severity,  \* result of compute_constraint_severity
    yield_data,           \* result of compute_yield
    cdc_potential,        \* result of evaluate_cdc_potential
    da_potential,         \* result of evaluate_da_potential
    overall_risk_rating,  \* result of compute_risk_rating
    required_studies,     \* result of recommend_required_studies
    status,               \* per stage: "pending", "input", "done" or "raised"
    polygon,              \* exterior ring of the parcel polygon
    area_perimeter,       \* result of compute_area_perimeter
    regularity_value,     \* result of compute_regularity_index
    feasibility_notes,    \* result of generate_feasibility_notes
    result,               \* the record analyse_parcel returns
    _settings,            \* the module global of config/settings.py
    runs,                 \* per concurrent run: its position and locals
    slope_args,           \* [dem_data, front_orientation_deg] of a call
    boundaries            \* result of identify_boundaries

vars == <<parcel_data, geometry_data, constraints, slope_data, zone_code,
          envelope_data, typologies, constraint_severity, yield_data,
          cdc_potential, da_potential, overall_risk_rating, required_studies,
          status, polygon, area_perimeter, regularity_value,
          feasibility_notes,
          result, _settings, runs, slope_args, boundaries>>

inputs == <<parcel_data, geometry_data, constraints, slope_data, zone_code,
            envelope_data>>

\* what the seven assessment stages neither read nor write
\* the arguments and the result of the direct geometry calls
calls == <<slope_args, boundaries>>

extras == <<polygon, area_perimeter, regularity_value, feasibility_notes, result,
            _settings, runs, calls>>

(***************************************************************************)
(* Bounds of the model.                                                    *)
(***************************************************************************)
\* longest other_overlays list drawn
MaxOverlays == 2
\* max_gfa_sqm is drawn from 0, 50, ..., 50 * MaxGfaSteps square metres
MaxGfaSteps == 14
\* widths and heights of the rectangles, in metres
MaxSide == 6
\* concurrent runs of analyse_parcel
NumRuns == 2

(***************************************************************************)
(* config/settings.py: Settings defaults.                                  *)
(***************************************************************************)
BUSHFIRE_WEIGHT == 3
FLOOD_WEIGHT == 3
HERITAGE_WEIGHT == 4
GEOTECH_WEIGHT == 2
BIODIVERSITY_WEIGHT == 1
MISC_WEIGHT == 1
\* 20.0 percent, in tenths
CDC_MAX_SLOPE_PERCENT == 200
\* 600.0 sqm
MIN_LOT_AREA_DUAL_OCC_SQM == 600
\* 15.0 m, in tenths
MIN_FRONTAGE_DUAL_OCC_M == 150
\* 0.7, in hundredths
MIN_FSR_TERRACE == 70
MIN_FSR_MULTI_DWELLING == 70
\* 100.0 sqm, in tenths
AVERAGE_UNIT_SIZE_TOWNHOUSE_SQM == 1000

(***************************************************************************)
(* Values.                                                                 *)
(***************************************************************************)
Stages == {"severity", "studies", "typologies", "yield", "cdc", "da", "risk",
           "area_perimeter", "regularity", "boundaries",
           "resolve", "geometry", "constraints", "lep", "slope", "notes",
           "result"}

\* the value a result variable holds before its stage has run
NoResult == [pending |-> TRUE]

\* an Optional[str]: None, or a text as its sequence of words
None == [none |-> TRUE, words |-> <<>>]
Text(ws) == [none |-> FALSE, words |-> ws]

\* an Optional argument: None, or a value
NoArg == [none |-> TRUE]
Arg(v) == [none |-> FALSE, value |-> v]

\* Python's `needle in hay` on texts, at word granularity: some contiguous
\* run of hay equals needle
Contains(needle, hay) ==
    \E i \in 0..(Len(hay) - Len(needle)) :
        SubSeq(hay, i + 1, i + Len(needle)) = needle

Max(a, b) == IF a >= b THEN a ELSE b
Min(a, b) == IF a <= b THEN a ELSE b

(***************************************************************************)
(* analysis/constraints_engine.py                                          *)
(***************************************************************************)
\* the mock constraint set evaluate_constraints returns
evaluate_constraints ==
    [bushfire_prone |-> FALSE, bushfire_category |-> None,
     flood_prone |-> FALSE, heritage_item |-> FALSE,
     heritage_conservation_area |-> FALSE,
     foreshore_building_line |-> FALSE, riparian_buffer |-> FALSE,
     biodiversity |-> FALSE, geotech_landslip_risk |-> "Low",
     other_overlays |-> <<>>]

\* `"Category 1" in category` raises TypeError when category is None
BushfireRaises(c) == c.bushfire_prone /\ c.bushfire_category.none

BushfireSeverity_CategoryTwoFirst(c) ==
    IF c.bushfire_prone
    THEN LET category == c.bushfire_category.words
         IN  IF Contains(<<"Category", "2">>, category) THEN 2
             ELSE IF \/ Contains(<<"Category", "1">>, category)
                     \/ Contains(<<"Vegetation", "Category", "1">>, category)
             THEN 3 ELSE 1
    ELSE 0

BushfireSeverity(c) ==
    IF c.bushfire_prone
    THEN LET category == c.bushfire_category.words
         IN  IF \/ Contains(<<"Category", "1">>, category)
                \/ Contains(<<"Vegetation", "Category", "1">>, category)
             THEN 3
             ELSE IF Contains(<<"Category", "2">>, category) THEN 2 ELSE 1
    ELSE 0

FloodSeverity(c) == IF c.flood_prone THEN 3 ELSE 0

HeritageSeverity(c) ==
    IF c.heritage_item THEN 3
    ELSE IF c.heritage_conservation_area THEN 2 ELSE 0

GeotechSeverity(c) ==
    CASE c.geotech_landslip_risk = "Very High" -> 3
      [] c.geotech_landslip_risk = "High" -> 2
      [] c.geotech_landslip_risk = "Moderate" -> 1
      [] c.geotech_landslip_risk = "Low" -> 0
      [] OTHER -> 0

BiodiversitySeverity(c) == IF c.biodiversity THEN 2 ELSE 0

MiscSeverity(c) == Len(c.other_overlays)

WeightedScore_BiodiversitySubtracted(b, f, h, g, bio, misc) ==
    BUSHFIRE_WEIGHT * b + FLOOD_WEIGHT * f + HERITAGE_WEIGHT * h
      + GEOTECH_WEIGHT * g - BIODIVERSITY_WEIGHT * bio + MISC_WEIGHT * misc

WeightedScore_HeritageUnweighted(b, f, h, g, bio, misc) ==
    BUSHFIRE_WEIGHT * b + FLOOD_WEIGHT * f + h
      + GEOTECH_WEIGHT * g + BIODIVERSITY_WEIGHT * bio + MISC_WEIGHT * misc

WeightedScore(b, f, h, g, bio, misc) ==
    BUSHFIRE_WEIGHT * b + FLOOD_WEIGHT * f + HERITAGE_WEIGHT * h
      + GEOTECH_WEIGHT * g + BIODIVERSITY_WEIGHT * bio + MISC_WEIGHT * misc

SeverityRating(total_score) ==
    IF total_score = 0 THEN "None"
    ELSE IF total_score <= 3 THEN "Low"
    ELSE IF total_score <= 7 THEN "Medium"
    ELSE IF total_score <= 12 THEN "High"
    ELSE "Red-Flag"

\* the record returned; defined where BushfireRaises(c) is false
compute_constraint_severity(c) ==
    LET total_score ==
            WeightedScore(BushfireSeverity(c), FloodSeverity(c),
                          HeritageSeverity(c), GeotechSeverity(c),
                          BiodiversitySeverity(c), MiscSeverity(c))
    IN  [bushfire_severity |-> BushfireSeverity(c),
         flood_severity |-> FloodSeverity(c),
         heritage_severity |-> HeritageSeverity(c),
         geotech_severity |-> GeotechSeverity(c),
         biodiversity_severity |-> BiodiversitySeverity(c),
         total_score |-> total_score,
         rating |-> SeverityRating(total_score)]

recommend_required_studies_HeritageTwice(c) ==
    LET geotech_risk == c.geotech_landslip_risk
    IN  (IF c.bushfire_prone
         THEN <<"Bushfire Assessment Report", "BAL Certificate">> ELSE <<>>)
        \o (IF c.flood_prone
            THEN <<"Flood Study", "Flood Impact Assessment">> ELSE <<>>)
        \o (IF geotech_risk \in {"High", "Very High", "Moderate"}
            THEN <<"Geotechnical Report">>
                 \o (IF geotech_risk \in {"High", "Very High"}
                     THEN <<"Slope Stability Assessment">> ELSE <<>>)
            ELSE <<>>)
        \o (IF c.biodiversity
            THEN <<"Biodiversity Assessment", "Flora and Fauna Report">>
            ELSE <<>>)
        \o (IF c.foreshore_building_line
            THEN <<"Coastal Hazard Assessment", "Foreshore Setback Report">>
            ELSE <<>>)
        \o (IF c.heritage_item
            THEN <<"Heritage Impact Statement">> ELSE <<>>)
        \o (IF c.heritage_conservation_area
            THEN <<"Heritage Impact Statement">> ELSE <<>>)

recommend_required_studies(c) ==
    LET geotech_risk == c.geotech_landslip_risk
    IN  (IF c.bushfire_prone
         THEN <<"Bushfire Assessment Report", "BAL Certificate">> ELSE <<>>)
        \o (IF c.flood_prone
            THEN <<"Flood Study", "Flood Impact Assessment">> ELSE <<>>)
        \o (IF geotech_risk \in {"High", "Very High", "Moderate"}
            THEN <<"Geotechnical Report">>
                 \o (IF geotech_risk \in {"High", "Very High"}
                     THEN <<"Slope Stability Assessment">> ELSE <<>>)
            ELSE <<>>)
        \o (IF c.biodiversity
            THEN <<"Biodiversity Assessment", "Flora and Fauna Report">>
            ELSE <<>>)
        \o (IF c.foreshore_building_line
            THEN <<"Coastal Hazard Assessment", "Foreshore Setback Report">>
            ELSE <<>>)
        \o (IF c.heritage_item \/ c.heritage_conservation_area
            THEN <<"Heritage Impact Statement">> ELSE <<>>)

(***************************************************************************)
(* analysis/risk_engine.py                                                 *)
(***************************************************************************)
SlopePenalty_ElifOrderSwapped(mean_gradient) ==
    IF mean_gradient > 150 THEN 2
    ELSE IF mean_gradient > 250 THEN 3 ELSE 0

SlopePenalty(mean_gradient) ==
    IF mean_gradient > 250 THEN 3
    ELSE IF mean_gradient > 150 THEN 2 ELSE 0

RegularityPenalty_Inclusive(regularity) == IF regularity <= 750 THEN 1 ELSE 0

RegularityPenalty(regularity) == IF regularity < 750 THEN 1 ELSE 0

RiskRatingOf_MediumUpToEight(total_score) ==
    IF total_score = 0 THEN "None"
    ELSE IF total_score <= 3 THEN "Low"
    ELSE IF total_score <= 8 THEN "Medium"
    ELSE IF total_score <= 12 THEN "High"
    ELSE "Red-Flag"

RiskRatingOf(total_score) ==
    IF total_score = 0 THEN "None"
    ELSE IF total_score <= 3 THEN "Low"
    ELSE IF total_score <= 7 THEN "Medium"
    ELSE IF total_score <= 12 THEN "High"
    ELSE "Red-Flag"

compute_risk_rating(c, severity, slope, geometry) ==
    LET base_score == severity.total_score
        geometry_score == SlopePenalty(slope.mean_gradient_percent)
                            + RegularityPenalty(geometry.regularity_index)
    IN  RiskRatingOf(base_score + geometry_score)

(***************************************************************************)
(* planning/lep_rules.py                                                   *)
(***************************************************************************)
\* Python's round(n / d): to the nearest integer, a tie to the even one
RoundHalfEven(n, d) ==
    LET q == n \div d
        r == n % d
    IN  IF 2 * r < d THEN q
        ELSE IF 2 * r > d THEN q + 1
        ELSE IF q % 2 = 0 THEN q ELSE q + 1

\* evaluate_lep_controls: round(fsr_control * parcel_area, 1), in tenths
MaxGfaSqm(fsr_control, parcel_area) == RoundHalfEven(fsr_control * parcel_area, 10)

ManorHouseGate_StrictArea(zone, parcel_area_sqm) ==
    zone \in {"R1", "R2"} /\ parcel_area_sqm > 600

ManorHouseGate(zone, parcel_area_sqm) ==
    zone \in {"R1", "R2"} /\ parcel_area_sqm >= 600

TerraceRowGate_ExcludesByZone(zone) == zone \notin {"R2", "R4"}

TerraceRowGate_IncludesR2(zone) == zone \in {"R1", "R2", "R3"}

TerraceRowGate(zone) == zone \in {"R1", "R3"}

determine_allowed_typologies_DualStrictArea(zone, parcel_area_sqm, geometry) ==
    LET frontage_m == geometry.frontage_m
    IN  [dual_occupancy |->
             /\ zone \in {"R1", "R2", "R3"}
             /\ parcel_area_sqm > MIN_LOT_AREA_DUAL_OCC_SQM
             /\ frontage_m >= MIN_FRONTAGE_DUAL_OCC_M,
         terrace_row |-> TerraceRowGate(zone),
         manor_house |-> ManorHouseGate(zone, parcel_area_sqm),
         multi_dwelling |-> zone \in {"R1", "R3"},
         apartments |-> zone \in {"R3", "R4"}]

determine_allowed_typologies(zone, parcel_area_sqm, geometry) ==
    LET frontage_m == geometry.frontage_m
    IN  [dual_occupancy |->
             /\ zone \in {"R1", "R2", "R3"}
             /\ parcel_area_sqm >= MIN_LOT_AREA_DUAL_OCC_SQM
             /\ frontage_m >= MIN_FRONTAGE_DUAL_OCC_M,
         terrace_row |-> TerraceRowGate(zone),
         manor_house |-> ManorHouseGate(zone, parcel_area_sqm),
         multi_dwelling |-> zone \in {"R1", "R3"},
         apartments |-> zone \in {"R3", "R4"}]

(***************************************************************************)
(* analysis/yield_engine.py                                                *)
(***************************************************************************)
generate_yield_notes(primary_typology, fsr, height, dual_occ_feasible, c) ==
    [standard_envelope |-> dual_occ_feasible,
     typology |-> primary_typology, fsr |-> fsr, height |-> height,
     caveat |-> IF c.heritage_item THEN "heritage"
                ELSE IF c.bushfire_prone THEN "bushfire" ELSE "none"]

\* <<indicative_dwellings, primary_typology>> of the if/elif chain
PrimaryTypology_MultiBeforeManor(dual, terrace, manor, multi, max_gfa_sqm) ==
    LET estimated_units == max_gfa_sqm \div AVERAGE_UNIT_SIZE_TOWNHOUSE_SQM
    IN  IF dual THEN <<2, "Dual Occupancy">>
        ELSE IF multi
        THEN <<Max(2, Min(6, estimated_units)), "Multi-Dwelling Housing">>
        ELSE IF manor THEN <<3, "Manor House">>
        ELSE IF terrace
        THEN <<Max(3, Min(6, estimated_units)), "Terrace/Row Housing">>
        ELSE <<1, "Single Dwelling">>

PrimaryTypology(dual, terrace, manor, multi, max_gfa_sqm) ==
    LET estimated_units == max_gfa_sqm \div AVERAGE_UNIT_SIZE_TOWNHOUSE_SQM
    IN  IF dual THEN <<2, "Dual Occupancy">>
        ELSE IF manor THEN <<3, "Manor House">>
        ELSE IF multi
        THEN <<Max(2, Min(6, estimated_units)), "Multi-Dwelling Housing">>
        ELSE IF terrace
        THEN <<Max(3, Min(6, estimated_units)), "Terrace/Row Housing">>
        ELSE <<1, "Single Dwelling">>

compute_yield_TerraceIgnoresHeritage(parcel, geometry, envelope, typ, c) ==
    LET parcel_area == parcel.area_sqm
        frontage == geometry.frontage_m
        max_gfa_sqm == envelope.max_gfa_sqm
        fsr_control == envelope.fsr_control
        max_height_m == envelope.max_height_m
        dual_occ_feasible ==
            /\ typ.dual_occupancy
            /\ ~c.heritage_item
            /\ parcel_area >= MIN_LOT_AREA_DUAL_OCC_SQM
            /\ frontage >= MIN_FRONTAGE_DUAL_OCC_M
        terrace_row_feasible ==
            /\ typ.terrace_row
            /\ fsr_control >= MIN_FSR_TERRACE
        manor_house_feasible ==
            /\ typ.manor_house
            /\ max_height_m <= 85
            /\ parcel_area >= 600
            /\ ~c.heritage_item
        multi_dwelling_feasible ==
            /\ typ.multi_dwelling
            /\ fsr_control >= MIN_FSR_MULTI_DWELLING
            /\ ~c.heritage_item
        primary == PrimaryTypology(dual_occ_feasible, terrace_row_feasible,
                                   manor_house_feasible,
                                   multi_dwelling_feasible, max_gfa_sqm)
    IN  [dual_occ_feasible |-> dual_occ_feasible,
         terrace_row_feasible |-> terrace_row_feasible,
         manor_house_feasible |-> manor_house_feasible,
         multi_dwelling_feasible |-> multi_dwelling_feasible,
         indicative_dwellings_count |-> primary[1],
         primary_typology |-> primary[2],
         notes |-> generate_yield_notes(primary[2], fsr_control, max_height_m,
                                        dual_occ_feasible, c)]

compute_yield_DualIgnoresHeritage(parcel, geometry, envelope, typ, c) ==
    LET parcel_area == parcel.area_sqm
        frontage == geometry.frontage_m
        max_gfa_sqm == envelope.max_gfa_sqm
        fsr_control == envelope.fsr_control
        max_height_m == envelope.max_height_m
        dual_occ_feasible ==
            /\ typ.dual_occupancy
            /\ parcel_area >= MIN_LOT_AREA_DUAL_OCC_SQM
            /\ frontage >= MIN_FRONTAGE_DUAL_OCC_M
        terrace_row_feasible ==
            /\ typ.terrace_row
            /\ fsr_control >= MIN_FSR_TERRACE
            /\ ~c.heritage_item
        manor_house_feasible ==
            /\ typ.manor_house
            /\ max_height_m <= 85
            /\ parcel_area >= 600
            /\ ~c.heritage_item
        multi_dwelling_feasible ==
            /\ typ.multi_dwelling
            /\ fsr_control >= MIN_FSR_MULTI_DWELLING
            /\ ~c.heritage_item
        primary == PrimaryTypology(dual_occ_feasible, terrace_row_feasible,
                                   manor_house_feasible,
                                   multi_dwelling_feasible, max_gfa_sqm)
    IN  [dual_occ_feasible |-> dual_occ_feasible,
         terrace_row_feasible |-> terrace_row_feasible,
         manor_house_feasible |-> manor_house_feasible,
         multi_dwelling_feasible |-> multi_dwelling_feasible,
         indicative_dwellings_count |-> primary[1],
         primary_typology |-> primary[2],
         notes |-> generate_yield_notes(primary[2], fsr_control, max_height_m,
                                        dual_occ_feasible, c)]

compute_yield(parcel, geometry, envelope, typ, c) ==
    LET parcel_area == parcel.area_sqm
        frontage == geometry.frontage_m
        max_gfa_sqm == envelope.max_gfa_sqm
        fsr_control == envelope.fsr_control
        max_height_m == envelope.max_height_m
        dual_occ_feasible ==
            /\ typ.dual_occupancy
            /\ ~c.heritage_item
            /\ parcel_area >= MIN_LOT_AREA_DUAL_OCC_SQM
            /\ frontage >= MIN_FRONTAGE_DUAL_OCC_M
        terrace_row_feasible ==
            /\ typ.terrace_row
            /\ fsr_control >= MIN_FSR_TERRACE
            /\ ~c.heritage_item
        manor_house_feasible ==
            /\ typ.manor_house
            /\ max_height_m <= 85
            /\ parcel_area >= 600
            /\ ~c.heritage_item
        multi_dwelling_feasible ==
            /\ typ.multi_dwelling
            /\ fsr_control >= MIN_FSR_MULTI_DWELLING
            /\ ~c.heritage_item
        primary == PrimaryTypology(dual_occ_feasible, terrace_row_feasible,
                                   manor_house_feasible,
                                   multi_dwelling_feasible, max_gfa_sqm)
    IN  [dual_occ_feasible |-> dual_occ_feasible,
         terrace_row_feasible |-> terrace_row_feasible,
         manor_house_feasible |-> manor_house_feasible,
         multi_dwelling_feasible |-> multi_dwelling_feasible,
         indicative_dwellings_count |-> primary[1],
         primary_typology |-> primary[2],
         notes |-> generate_yield_notes(primary[2], fsr_control, max_height_m,
                                        dual_occ_feasible, c)]

(***************************************************************************)
(* planning/cdc_low_rise.py                                                *)
(* A blocking entry is <<text>>, or <<text, value>> for an f-string whose  *)
(* value is formatted to the precision the model's unit already has.       *)
(***************************************************************************)
When(cond, entry) == IF cond THEN <<entry>> ELSE <<>>

BlockingConstraints_FrontageBeforeArea(parcel, geometry, c, slope) ==
    LET parcel_area == parcel.area_sqm
        frontage == geometry.frontage_m
        mean_gradient == slope.mean_gradient_percent
    IN  When(c.bushfire_prone, <<"Bushfire (BAL > 40 requires report)">>)
        \o When(c.flood_prone, <<"Flood control lot">>)
        \o When(c.heritage_item, <<"Heritage Item">>)
        \o When(c.heritage_conservation_area, <<"Heritage Conservation Area">>)
        \o When(c.foreshore_building_line, <<"Foreshore Building Line">>)
        \o When(c.riparian_buffer, <<"Riparian Buffer">>)
        \o When(frontage < MIN_FRONTAGE_DUAL_OCC_M,
                <<"Insufficient frontage", frontage>>)
        \o When(parcel_area < MIN_LOT_AREA_DUAL_OCC_SQM,
                <<"Insufficient lot area", parcel_area>>)
        \o When(mean_gradient > CDC_MAX_SLOPE_PERCENT,
                <<"Slope too steep for CDC", mean_gradient>>)

BlockingConstraints(parcel, geometry, c, slope) ==
    LET parcel_area == parcel.area_sqm
        frontage == geometry.frontage_m
        mean_gradient == slope.mean_gradient_percent
    IN  When(c.bushfire_prone, <<"Bushfire (BAL > 40 requires report)">>)
        \o When(c.flood_prone, <<"Flood control lot">>)
        \o When(c.heritage_item, <<"Heritage Item">>)
        \o When(c.heritage_conservation_area, <<"Heritage Conservation Area">>)
        \o When(c.foreshore_building_line, <<"Foreshore Building Line">>)
        \o When(c.riparian_buffer, <<"Riparian Buffer">>)
        \o When(parcel_area < MIN_LOT_AREA_DUAL_OCC_SQM,
                <<"Insufficient lot area", parcel_area>>)
        \o When(frontage < MIN_FRONTAGE_DUAL_OCC_M,
                <<"Insufficient frontage", frontage>>)
        \o When(mean_gradient > CDC_MAX_SLOPE_PERCENT,
                <<"Slope too steep for CDC", mean_gradient>>)

CdcCompliant_OnlyOverlayBlockers(blocking_constraints) ==
    \A i \in 1..Len(blocking_constraints) :
        Len(blocking_constraints[i]) > 1

CdcCompliant(blocking_constraints) == Len(blocking_constraints) = 0

evaluate_cdc_potential(parcel, geometry, c, slope) ==
    LET blocking_constraints == BlockingConstraints(parcel, geometry, c, slope)
        is_potentially_cdc_compliant == CdcCompliant(blocking_constraints)
    IN  [is_potentially_cdc_compliant |-> is_potentially_cdc_compliant,
         likely_pathway |-> IF is_potentially_cdc_compliant
                            THEN "CDC Possible" ELSE "DA Only",
         blocking_constraints |-> blocking_constraints]

(***************************************************************************)
(* planning/da_guidance.py                                                 *)
(***************************************************************************)
\* list(dict.fromkeys(xs)): drop every later duplicate, keep first-seen order
RECURSIVE DictFromKeys(_)
DictFromKeys(xs) ==
    IF xs = <<>> THEN <<>>
    ELSE LET front == DictFromKeys(SubSeq(xs, 1, Len(xs) - 1))
             last == xs[Len(xs)]
         IN  IF \E i \in 1..Len(front) : front[i] = last
             THEN front ELSE Append(front, last)

KeyIssues_BulkAfterCorner(geometry, c, slope) ==
    LET mean_gradient == slope.mean_gradient_percent
        geotech_risk == c.geotech_landslip_risk
        regularity == geometry.regularity_index
    IN  When(c.bushfire_prone, "Bushfire vegetation setback")
        \o When(c.flood_prone, "Flood planning and stormwater management")
        \o (IF c.heritage_item
            THEN <<"Heritage significance - strict controls apply">>
            ELSE When(c.heritage_conservation_area,
                  "Heritage conservation area - streetscape compatibility"))
        \o When(mean_gradient > 150, "Slope and stormwater")
        \o When(geotech_risk \in {"High", "Very High"},
                "Geotechnical stability")
        \o When(regularity < 750, "Irregular lot shape - design challenges")
        \o When(geometry.is_corner_lot,
                "Corner lot - secondary street setbacks")
        \o <<"Streetscape bulk & scale">>

KeyIssues(geometry, c, slope) ==
    LET mean_gradient == slope.mean_gradient_percent
        geotech_risk == c.geotech_landslip_risk
        regularity == geometry.regularity_index
    IN  When(c.bushfire_prone, "Bushfire vegetation setback")
        \o When(c.flood_prone, "Flood planning and stormwater management")
        \o (IF c.heritage_item
            THEN <<"Heritage significance - strict controls apply">>
            ELSE When(c.heritage_conservation_area,
                  "Heritage conservation area - streetscape compatibility"))
        \o When(mean_gradient > 150, "Slope and stormwater")
        \o When(geotech_risk \in {"High", "Very High"},
                "Geotechnical stability")
        \o When(regularity < 750, "Irregular lot shape - design challenges")
        \o <<"Streetscape bulk & scale">>
        \o When(geometry.is_corner_lot,
                "Corner lot - secondary street setbacks")

Supportable_HighGeotechBlocks(c) ==
    ~c.heritage_item /\ c.geotech_landslip_risk \notin {"High", "Very High"}

Supportable(c) ==
    ~c.heritage_item /\ c.geotech_landslip_risk # "Very High"

RedFlags(c) ==
    When(c.heritage_item, "Heritage Item")
    \o When(c.geotech_landslip_risk = "Very High", "Very High Landslip Risk")

evaluate_da_potential_IssuesUncapped(parcel, geometry, c, slope, recommended_studies) ==
    [is_likely_supportable |-> Supportable(c),
     key_issues |-> DictFromKeys(KeyIssues(geometry, c, slope)),
     recommended_studies |-> recommended_studies,
     red_flags |-> RedFlags(c)]

evaluate_da_potential_StudiesCapped(parcel, geometry, c, slope, recommended_studies) ==
    LET key_issues == DictFromKeys(KeyIssues(geometry, c, slope))
    IN  [is_likely_supportable |-> Supportable(c),
         key_issues |-> SubSeq(key_issues, 1, Min(5, Len(key_issues))),
         recommended_studies |->
             SubSeq(recommended_studies, 1, Min(5, Len(recommended_studies))),
         red_flags |-> RedFlags(c)]

evaluate_da_potential(parcel, geometry, c, slope, recommended_studies) ==
    LET key_issues == DictFromKeys(KeyIssues(geometry, c, slope))
    IN  [is_likely_supportable |-> Supportable(c),
         key_issues |-> SubSeq(key_issues, 1, Min(5, Len(key_issues))),
         recommended_studies |-> recommended_studies,
         red_flags |-> RedFlags(c)]

(***************************************************************************)
(* analysis/risk_engine.py: generate_feasibility_notes                     *)
(* The notes are the list notes_parts: one tuple per sentence, holding the *)
(* sentence's fixed wording and the values formatted into it.              *)
(***************************************************************************)
\* blocking[0].split("(")[0].strip()
MainBlocker(entry) ==
    IF entry[1] = "Bushfire (BAL > 40 requires report)" THEN "Bushfire"
    ELSE entry[1]

\* studies[0].replace("Assessment", "").replace("Report", "").strip()
MainStudy(study) ==
    CASE study = "Bushfire Assessment Report" -> "Bushfire"
      [] study = "Geotechnical Report" -> "Geotechnical"
      [] study = "Biodiversity Assessment" -> "Biodiversity"
      [] study = "Coastal Hazard Assessment" -> "Coastal Hazard"
      [] OTHER -> study

generate_feasibility_notes(zone, fsr, cdc, da, yld, c) ==
    <<<<"Viable site under zoning with FSR", yld.primary_typology, zone, fsr>>>>
    \o (IF cdc.is_potentially_cdc_compliant
        THEN <<<<"CDC pathway potentially available.">>>>
        ELSE IF cdc.blocking_constraints # <<>>
        THEN <<<<"CDC unlikely due to",
                 MainBlocker(cdc.blocking_constraints[1])>>>>
        ELSE <<>>)
    \o (IF da.is_likely_supportable
        THEN IF da.recommended_studies # <<>>
             THEN <<<<"DA feasible with appropriate and design controls.",
                      MainStudy(da.recommended_studies[1])>>>>
             ELSE <<<<"DA pathway realistic with standard design controls.">>>>
        ELSE <<<<"DA challenging due to significant constraints.">>>>)

(***************************************************************************)
(* geometry/polygon_ops.py                                                 *)
(* A polygon is its closed exterior ring, a sequence of <<x, y>> vertices   *)
(* in metres whose last vertex repeats the first.  Areas and perimeters    *)
(* are in hundredths (round(..., 2)), the regularity index in thousandths. *)
(***************************************************************************)
Abs(n) == IF n < 0 THEN -n ELSE n

\* math.sqrt(dx**2 + dy**2) on the edges of this model's polygons, each
\* axis-parallel or the hypotenuse of an integer right triangle
Hypot(dx, dy) ==
    CHOOSE l \in 0..(Abs(dx) + Abs(dy)) : l * l = dx * dx + dy * dy

\* Polygon.area, doubled: the shoelace sum over the ring
RECURSIVE Shoelace(_, _)
Shoelace(coords, i) ==
    IF i >= Len(coords) THEN 0
    ELSE coords[i][1] * coords[i + 1][2] - coords[i + 1][1] * coords[i][2]
         + Shoelace(coords, i + 1)

PolygonArea2(coords) == Abs(Shoelace(coords, 1))

\* Polygon.length: the sum of the edge lengths of the ring
RECURSIVE RingLength(_, _)
RingLength(coords, i) ==
    IF i >= Len(coords) THEN 0
    ELSE Hypot(coords[i + 1][1] - coords[i][1],
               coords[i + 1][2] - coords[i][2])
         + RingLength(coords, i + 1)

PolygonLength(coords) == RingLength(coords, 1)

compute_area_perimeter_AreaNotHalved(coords) ==
    <<RoundHalfEven(PolygonArea2(coords) * 100, 1),
      RoundHalfEven(PolygonLength(coords) * 100, 1)>>

compute_area_perimeter(coords) ==
    <<RoundHalfEven(PolygonArea2(coords) * 100, 2),
      RoundHalfEven(PolygonLength(coords) * 100, 1)>>

\* a/b <= c/d for a, c >= 0 and b, d > 0, by continued fractions, so that
\* no product leaves the integer range
RECURSIVE FracLeq(_, _, _, _)
FracLeq(a, b, c, d) ==
    IF a \div b # c \div d THEN a \div b < c \div d
    ELSE IF a % b = 0 THEN TRUE
    ELSE IF c % d = 0 THEN FALSE
    ELSE FracLeq(d, c % d, b, a % b)

\* r - 1/2 <= 1000 * 4 * sqrt(area) / perimeter, that is
\* ((2r - 1) * perimeter)^2 <= 32,000,000 * area2
HalfBelow(r, area2, perimeter) ==
    \/ r = 0
    \/ FracLeq((2 * r - 1) * perimeter, 8000,
               4000 * area2, (2 * r - 1) * perimeter)

\* r - 1/2 = 1000 * 4 * sqrt(area) / perimeter
HalfAt(r, area2, perimeter) ==
    /\ r > 0
    /\ HalfBelow(r, area2, perimeter)
    /\ FracLeq(4000 * area2, (2 * r - 1) * perimeter,
               (2 * r - 1) * perimeter, 8000)

\* the largest r in lo..hi with HalfBelow(r), given HalfBelow(lo)
RECURSIVE Nearest(_, _, _, _)
Nearest(lo, hi, area2, perimeter) ==
    IF lo = hi THEN lo
    ELSE LET mid == (lo + hi + 1) \div 2
         IN  IF HalfBelow(mid, area2, perimeter)
             THEN Nearest(mid, hi, area2, perimeter)
             ELSE Nearest(lo, mid - 1, area2, perimeter)

\* round(4 * math.sqrt(area) / perimeter, 3) in thousandths, ties to even;
\* the ratio of a closed ring is below 1.2 (isoperimetric inequality)
RoundedRatio(area2, perimeter) ==
    LET r == Nearest(0, 1200, area2, perimeter)
    IN  IF HalfAt(r, area2, perimeter) /\ r % 2 = 1 THEN r - 1 ELSE r

compute_regularity_index_Unclamped(coords) ==
    LET area2 == PolygonArea2(coords)
        perimeter == PolygonLength(coords)
    IN  IF perimeter = 0 THEN 0 ELSE RoundedRatio(area2, perimeter)

\* 0 and 1 are thousandths and rounding is monotone, so clamping the rounded
\* ratio is rounding the clamped ratio
compute_regularity_index(coords) ==
    LET area2 == PolygonArea2(coords)
        perimeter == PolygonLength(coords)
    IN  IF perimeter = 0 THEN 0
        ELSE Max(0, Min(1000, RoundedRatio(area2, perimeter)))

(***************************************************************************)
(* geometry/boundaries.py                                                 *)
(* Inside the function bearings are hundredths of a degree and lengths     *)
(* hundredths of a metre; the returned record holds whole degrees          *)
(* (round(..., 0)) and tenths of a metre (round(..., 1)).  Midpoints are   *)
(* kept doubled, which changes no comparison between them.                 *)
(***************************************************************************)
\* the largest r in lo..hi with r * r <= n
RECURSIVE IsqrtIn(_, _, _)
IsqrtIn(n, lo, hi) ==
    IF lo = hi THEN lo
    ELSE LET mid == (lo + hi + 1) \div 2
         IN  IF mid * mid <= n THEN IsqrtIn(n, mid, hi)
             ELSE IsqrtIn(n, lo, mid - 1)

\* math.sqrt(dx**2 + dy**2) to the nearest hundredth
SegmentLength(dx, dy) ==
    LET n == 10000 * (dx * dx + dy * dy)
        r == IsqrtIn(n, 0, 46340)
    IN  IF n - r * r > r THEN r + 1 ELSE r

\* math.degrees(math.atan2(adx, ady)) for adx, ady >= 0, to the nearest
\* hundredth, for the edge directions of the polygons of this model: along
\* an axis, and with |dx| : |dy| one of 1:1, 3:4, 4:3, 1:40, 1:120
AtanDegrees(adx, ady) ==
    CASE adx = 0 -> 0
      [] adx > 0 /\ ady = 0 -> 9000
      [] adx > 0 /\ adx = ady -> 4500
      [] adx > 0 /\ 4 * adx = 3 * ady -> 3687
      [] adx > 0 /\ 3 * adx = 4 * ady -> 5313
      [] adx > 0 /\ 40 * adx = ady -> 143
      [] adx > 0 /\ 120 * adx = ady -> 48

\* atan2 is odd in dx and atan2(dx, -dy) = 180 - atan2(dx, dy) for dx >= 0
compute_bearing(p1, p2) ==
    LET dx == p2[1] - p1[1]
        dy == p2[2] - p1[2]
        acute == AtanDegrees(Abs(dx), Abs(dy))
        bearing == IF dx >= 0
                   THEN IF dy >= 0 THEN acute ELSE 18000 - acute
                   ELSE IF dy >= 0 THEN 0 - acute ELSE acute - 18000
    IN  IF bearing < 0 THEN bearing + 36000 ELSE bearing

\* the segment list: one record per edge of the ring
Segments(coords) ==
    [i \in 1..(Len(coords) - 1) |->
        [length |-> SegmentLength(coords[i + 1][1] - coords[i][1],
                                  coords[i + 1][2] - coords[i][2]),
         bearing |-> compute_bearing(coords[i], coords[i + 1]),
         mid_x2 |-> coords[i][1] + coords[i + 1][1],
         mid_y2 |-> coords[i][2] + coords[i + 1][2]]]

SouthernmostIdx_Northernmost(segments) ==
    CHOOSE i \in 1..Len(segments) :
        /\ \A j \in 1..Len(segments) : segments[i].mid_y2 >= segments[j].mid_y2
        /\ \A j \in 1..(i - 1) : segments[j].mid_y2 < segments[i].mid_y2

\* min(range(len(segments)), key=...): the first index of the least key
SouthernmostIdx(segments) ==
    CHOOSE i \in 1..Len(segments) :
        /\ \A j \in 1..Len(segments) : segments[i].mid_y2 <= segments[j].mid_y2
        /\ \A j \in 1..(i - 1) : segments[j].mid_y2 > segments[i].mid_y2

\* the three-way minimum of slope.py:57 and boundaries.py:93, in degrees
BearingDiff(bearing, target_bearing) ==
    Min(Abs(bearing - target_bearing),
        Min(Abs(bearing - target_bearing + 360),
            Abs(bearing - target_bearing - 360)))

\* the first index other than the front with the least bearing difference;
\* 0 stands for None (no other segment)
RearIdx(segments, front_idx) ==
    LET target_bearing == (segments[front_idx].bearing + 18000) % 36000
        diff(i) ==
            Min(Abs(segments[i].bearing - target_bearing),
                Min(Abs(segments[i].bearing - target_bearing + 36000),
                    Abs(segments[i].bearing - target_bearing - 36000)))
        others == (1..Len(segments)) \ {front_idx}
    IN  IF others = {} THEN 0
        ELSE CHOOSE i \in others :
                /\ \A j \in others : diff(i) <= diff(j)
                /\ \A j \in others : j < i => diff(j) > diff(i)

RECURSIVE SumLengths(_, _)
SumLengths(segments, idxs) ==
    IF idxs = {} THEN 0
    ELSE LET i == CHOOSE j \in idxs : TRUE
         IN  segments[i].length + SumLengths(segments, idxs \ {i})

RECURSIVE SumBearings(_, _)
SumBearings(segments, idxs) ==
    IF idxs = {} THEN 0
    ELSE LET i == CHOOSE j \in idxs : TRUE
         IN  segments[i].bearing + SumBearings(segments, idxs \ {i})

\* round(np.mean([bearings]), 0) in whole degrees, 0 for no segment
MeanOrientation(segments, idxs) ==
    IF idxs = {} THEN 0
    ELSE RoundHalfEven(SumBearings(segments, idxs), 100 * Cardinality(idxs))

\* which edge is the front, which the rear, and the two sets of sides
AssignSegments(segments) ==
    LET southernmost_idx == SouthernmostIdx(segments)
        rear_idx == RearIdx(segments, southernmost_idx)
        side_indices == (1..Len(segments)) \ {southernmost_idx, rear_idx}
        front_mid_x == segments[southernmost_idx].mid_x2
        left == {i \in side_indices : segments[i].mid_x2 < front_mid_x}
    IN  [southernmost_idx |-> southernmost_idx,
         rear_idx |-> rear_idx,
         left_segments |-> left,
         right_segments |-> side_indices \ left]

identify_boundaries(coords) ==
    LET segments == Segments(coords)
        assigned == AssignSegments(segments)
        front_segment == segments[assigned.southernmost_idx]
        rear_segment == IF assigned.rear_idx # 0
                        THEN segments[assigned.rear_idx]
                        ELSE front_segment
        left_length == SumLengths(segments, assigned.left_segments)
        right_length == SumLengths(segments, assigned.right_segments)
        depth_m == IF left_length # 0 \/ right_length # 0
                   THEN RoundHalfEven(left_length + right_length, 20)
                   ELSE 0
    IN  [front |-> [length_m |-> RoundHalfEven(front_segment.length, 10),
                    orientation_deg |->
                        RoundHalfEven(front_segment.bearing, 100)],
         rear |-> [length_m |-> RoundHalfEven(rear_segment.length, 10),
                   orientation_deg |->
                       RoundHalfEven(rear_segment.bearing, 100)],
         sides |-> <<[name |-> "left",
                      length_m |-> RoundHalfEven(left_length, 10),
                      orientation_deg |->
                          MeanOrientation(segments, assigned.left_segments)],
                     [name |-> "right",
                      length_m |-> RoundHalfEven(right_length, 10),
                      orientation_deg |->
                          MeanOrientation(segments,
                                          assigned.right_segments)]>>,
         perimeter_m |->
             RoundHalfEven(SumLengths(segments, 1..Len(segments)), 10),
         frontage_m |-> RoundHalfEven(front_segment.length, 10),
         depth_m |-> depth_m]

(***************************************************************************)
(* geometry/slope.py                                                       *)
(***************************************************************************)
\* gradients in tenths of a percent, directions in whole degrees; both
\* branches return constants, so each round() returns its argument
compute_slope_metrics_StrictAngle(dem_data, front_orientation_deg) ==
    LET mean_gradient == IF dem_data.none THEN 65 ELSE 50
        max_gradient == IF dem_data.none THEN 120 ELSE 100
        primary_fall_direction == 180
        falls_to_street ==
            IF ~front_orientation_deg.none
            THEN LET street_direction ==
                         (front_orientation_deg.value + 90) % 360
                     angle_diff == BearingDiff(primary_fall_direction,
                                               street_direction)
                 IN  angle_diff < 45
            ELSE FALSE
    IN  [mean_gradient_percent |-> mean_gradient,
         max_gradient_percent |-> max_gradient,
         primary_fall_direction_deg |-> primary_fall_direction,
         falls_to_street |-> falls_to_street]

compute_slope_metrics(dem_data, front_orientation_deg) ==
    LET mean_gradient == IF dem_data.none THEN 65 ELSE 50
        max_gradient == IF dem_data.none THEN 120 ELSE 100
        primary_fall_direction == 180
        falls_to_street ==
            IF ~front_orientation_deg.none
            THEN LET street_direction ==
                         (front_orientation_deg.value + 90) % 360
                     angle_diff == BearingDiff(primary_fall_direction,
                                               street_direction)
                 IN  angle_diff <= 45
            ELSE FALSE
    IN  [mean_gradient_percent |-> mean_gradient,
         max_gradient_percent |-> max_gradient,
         primary_fall_direction_deg |-> primary_fall_direction,
         falls_to_street |-> falls_to_street]

(***************************************************************************)
(* pipeline/runner.py: compute_geometry                                    *)
(***************************************************************************)
compute_geometry(coords) ==
    LET boundaries_data == identify_boundaries(coords)
    IN  [boundaries |-> [front |-> boundaries_data.front,
                         rear |-> boundaries_data.rear,
                         perimeter_m |-> boundaries_data.perimeter_m],
         frontage_m |-> boundaries_data.frontage_m,
         depth_m |-> boundaries_data.depth_m,
         regularity_index |-> compute_regularity_index(coords),
         is_corner_lot |-> FALSE]

(***************************************************************************)
(* pipeline/runner.py: the values the mock collaborators supply.           *)
(***************************************************************************)
\* resolve_parcel: area_sqm 607
\* resolve_parcel's 15 m x 40 m ring, moved by (-360400, -6258960)
MockPolygon == <<<<0, 40>>, <<15, 40>>, <<15, 0>>, <<0, 0>>, <<0, 40>>>>
MockParcel == [area_sqm |-> 607]
\* compute_geometry on the 15 m x 40 m mock polygon
MockGeometry ==
    [frontage_m |-> 150, regularity_index |-> 891, is_corner_lot |-> FALSE]
\* compute_slope_metrics without DEM data, front orientation 270
MockSlope == [mean_gradient_percent |-> 65, falls_to_street |-> FALSE]
\* evaluate_lep_controls: zone R1, 8.5 m, FSR 0.6, max_gfa round(0.6 * 607, 1)
MockZone == "R1"
MockEnvelope ==
    [max_gfa_sqm |-> 3642, fsr_control |-> 60, max_height_m |-> 85]

(***************************************************************************)
(* Input domains.                                                          *)
(***************************************************************************)
BushfireCategories ==
    {None, Text(<<>>),
     Text(<<"Vegetation", "Category", "1">>),
     Text(<<"Vegetation", "Category", "2">>),
     Text(<<"Vegetation", "Buffer">>),
     Text(<<"Category", "2", "adjoining", "Category", "1">>)}
GeotechRisks == {"Low", "Moderate", "High", "Very High"}
OverlayLists == {[i \in 1..n |-> i] : n \in 0..MaxOverlays}
ZoneCodes == {"R1", "R2", "R3", "R4", "R5", "B1", "r1", ""}
AreaValues == {450, 599, 600, 601, 900}
FrontageValues == {0, 149, 150, 151, 200}
GradientValues == {65, 150, 151, 200, 201, 250, 251, 300}
RegularityValues == {0, 749, 750, 1000}
FsrValues == {60, 69, 70, 100}
HeightValues == {85, 86}
GfaValues == {500 * k : k \in 0..MaxGfaSteps}

AllPending == [s \in Stages |-> "pending"]

NoResults ==
    /\ typologies = NoResult
    /\ constraint_severity = NoResult
    /\ yield_data = NoResult
    /\ cdc_potential = NoResult
    /\ da_potential = NoResult
    /\ overall_risk_rating = "pending"
    /\ required_studies = <<>>

Rectangle(w, h) == <<<<0, 0>>, <<w, 0>>, <<w, h>>, <<0, h>>, <<0, 0>>>>

\* all vertices coincident: area 0, perimeter 0
DegeneratePolygon == <<<<0, 0>>, <<0, 0>>, <<0, 0>>, <<0, 0>>>>

\* a 10 x 10 square with a 5 x 5 corner cut out
LShapePolygon ==
    <<<<0, 0>>, <<10, 0>>, <<10, 5>>, <<5, 5>>, <<5, 10>>, <<0, 10>>,
      <<0, 0>>>>

TrianglePolygon == <<<<0, 0>>, <<4, 0>>, <<0, 3>>, <<0, 0>>>>

\* sides 3 and 5 alternating: area 75, perimeter 32, 4 * sqrt(75) > 32
OctagonPolygon ==
    <<<<4, 0>>, <<7, 0>>, <<11, 3>>, <<11, 6>>, <<7, 9>>, <<4, 9>>,
      <<0, 6>>, <<0, 3>>, <<4, 0>>>>

Polygons ==
    {Rectangle(w, h) : w \in 1..MaxSide, h \in 1..MaxSide}
    \cup {Rectangle(10, 10), Rectangle(15, 40), MockPolygon,
          DegeneratePolygon, LShapePolygon, TrianglePolygon, OctagonPolygon}

NoGeometryResults ==
    /\ area_perimeter = NoResult
    /\ regularity_value = 0

\* no run of analyse_parcel in progress, settings not yet created
NoRuns ==
    /\ feasibility_notes = <<>>
    /\ result = NoResult
    /\ _settings = None
    /\ runs = <<>>

\* no direct call of compute_slope_metrics or identify_boundaries
NoCalls ==
    /\ slope_args = [dem_data |-> NoArg, front_orientation_deg |-> NoArg]
    /\ boundaries = NoResult

ExtrasIdle ==
    /\ polygon = MockPolygon
    /\ NoGeometryResults
    /\ NoRuns
    /\ NoCalls

(***************************************************************************)
(* Stages of analyse_parcel, one action per call.                          *)
(***************************************************************************)
\* runner.py:64
ComputeConstraintSeverity ==
    /\ status["severity"] = "pending"
    /\ IF BushfireRaises(constraints)
       THEN /\ status' = [status EXCEPT !["severity"] = "raised"]
            /\ UNCHANGED constraint_severity
       ELSE /\ constraint_severity' = compute_constraint_severity(constraints)
            /\ status' = [status EXCEPT !["severity"] = "done"]
    /\ UNCHANGED <<inputs, extras, typologies, yield_data, cdc_potential,
                   da_potential, overall_risk_rating, required_studies>>

\* runner.py:65
RecommendRequiredStudies ==
    /\ status["studies"] = "pending"
    /\ required_studies' = recommend_required_studies(constraints)
    /\ status' = [status EXCEPT !["studies"] = "done"]
    /\ UNCHANGED <<inputs, extras, typologies, constraint_severity, yield_data,
                   cdc_potential, da_potential, overall_risk_rating>>

\* lep_rules.py:41, reached from runner.py:68
DetermineAllowedTypologies ==
    /\ status["typologies"] = "pending"
    /\ typologies' = determine_allowed_typologies(zone_code,
                         parcel_data.area_sqm, geometry_data)
    /\ status' = [status EXCEPT !["typologies"] = "done"]
    /\ UNCHANGED <<inputs, extras, constraint_severity, yield_data, cdc_potential,
                   da_potential, overall_risk_rating, required_studies>>

\* runner.py:76
ComputeYield ==
    /\ status["yield"] = "pending"
    /\ status["typologies"] \in {"input", "done"}
    /\ yield_data' = compute_yield(parcel_data, geometry_data, envelope_data,
                                   typologies, constraints)
    /\ status' = [status EXCEPT !["yield"] = "done"]
    /\ UNCHANGED <<inputs, extras, typologies, constraint_severity, cdc_potential,
                   da_potential, overall_risk_rating, required_studies>>

\* runner.py:85
EvaluateCdcPotential ==
    /\ status["cdc"] = "pending"
    /\ cdc_potential' = evaluate_cdc_potential(parcel_data, geometry_data,
                                               constraints, slope_data)
    /\ status' = [status EXCEPT !["cdc"] = "done"]
    /\ UNCHANGED <<inputs, extras, typologies, constraint_severity, yield_data,
                   da_potential, overall_risk_rating, required_studies>>

\* runner.py:92
EvaluateDaPotential ==
    /\ status["da"] = "pending"
    /\ status["studies"] = "done"
    /\ da_potential' = evaluate_da_potential(parcel_data, geometry_data,
                           constraints, slope_data, required_studies)
    /\ status' = [status EXCEPT !["da"] = "done"]
    /\ UNCHANGED <<inputs, extras, typologies, constraint_severity, yield_data,
                   cdc_potential, overall_risk_rating, required_studies>>

\* runner.py:100
ComputeRiskRating ==
    /\ status["risk"] = "pending"
    /\ status["severity"] = "done"
    /\ overall_risk_rating' = compute_risk_rating(constraints,
                                  constraint_severity, slope_data,
                                  geometry_data)
    /\ status' = [status EXCEPT !["risk"] = "done"]
    /\ UNCHANGED <<inputs, extras, typologies, constraint_severity, yield_data,
                   cdc_potential, da_potential, required_studies>>

(***************************************************************************)
(* Scoring: compute_constraint_severity, then compute_risk_rating, on      *)
(* every constraint set, mean gradient and regularity index.               *)
(***************************************************************************)
InitScoring ==
    /\ parcel_data = MockParcel
    /\ zone_code = MockZone
    /\ envelope_data = MockEnvelope
    /\ \E bp \in BOOLEAN, bc \in BushfireCategories, fp \in BOOLEAN,
          hi \in BOOLEAN, hca \in BOOLEAN, gr \in GeotechRisks,
          bio \in BOOLEAN, oo \in OverlayLists :
          constraints = [evaluate_constraints EXCEPT
                            !.bushfire_prone = bp, !.bushfire_category = bc,
                            !.flood_prone = fp, !.heritage_item = hi,
                            !.heritage_conservation_area = hca,
                            !.geotech_landslip_risk = gr,
                            !.biodiversity = bio, !.other_overlays = oo]
    /\ \E g \in GradientValues :
          slope_data = [MockSlope EXCEPT !.mean_gradient_percent = g]
    /\ \E r \in RegularityValues :
          geometry_data = [MockGeometry EXCEPT !.regularity_index = r]
    /\ NoResults
    /\ ExtrasIdle
    /\ status = AllPending

NextScoring == ComputeConstraintSeverity \/ ComputeRiskRating

SpecScoring == InitScoring /\ [][NextScoring]_vars

(***************************************************************************)
(* Typology gates: determine_allowed_typologies on every zone code, area   *)
(* and frontage, then compute_yield on the flags it produced.              *)
(***************************************************************************)
InitLep ==
    /\ \E a \in AreaValues : parcel_data = [area_sqm |-> a]
    /\ \E f \in FrontageValues :
          geometry_data = [MockGeometry EXCEPT !.frontage_m = f]
    /\ \E z \in ZoneCodes : zone_code = z
    /\ \E fsr \in FsrValues, h \in HeightValues :
          envelope_data = [max_gfa_sqm |-> MaxGfaSqm(fsr, parcel_data.area_sqm),
                           fsr_control |-> fsr, max_height_m |-> h]
    /\ \E hi \in BOOLEAN :
          constraints = [evaluate_constraints EXCEPT !.heritage_item = hi]
    /\ slope_data = MockSlope
    /\ NoResults
    /\ ExtrasIdle
    /\ status = AllPending

NextLep == DetermineAllowedTypologies \/ ComputeYield

SpecLep == InitLep /\ [][NextLep]_vars

(***************************************************************************)
(* Yield: compute_yield on every typology flag record.                     *)
(***************************************************************************)
InitYield ==
    /\ \E a \in {599, 600, 900} : parcel_data = [area_sqm |-> a]
    /\ \E f \in {149, 150} :
          geometry_data = [MockGeometry EXCEPT !.frontage_m = f]
    /\ zone_code = MockZone
    /\ \E gfa \in GfaValues, fsr \in {69, 70}, h \in HeightValues :
          envelope_data = [max_gfa_sqm |-> gfa, fsr_control |-> fsr,
                           max_height_m |-> h]
    /\ \E hi \in BOOLEAN :
          constraints = [evaluate_constraints EXCEPT !.heritage_item = hi]
    /\ slope_data = MockSlope
    /\ \E d \in BOOLEAN, t \in BOOLEAN, m \in BOOLEAN, md \in BOOLEAN :
          typologies = [dual_occupancy |-> d, terrace_row |-> t,
                        manor_house |-> m, multi_dwelling |-> md,
                        apartments |-> FALSE]
    /\ constraint_severity = NoResult
    /\ yield_data = NoResult
    /\ cdc_potential = NoResult
    /\ da_potential = NoResult
    /\ overall_risk_rating = "pending"
    /\ required_studies = <<>>
    /\ ExtrasIdle
    /\ status = [AllPending EXCEPT !["typologies"] = "input"]

NextYield == ComputeYield

SpecYield == InitYield /\ [][NextYield]_vars

(***************************************************************************)
(* Fast-track pathway: evaluate_cdc_potential on every combination of the  *)
(* flags, area, frontage and mean gradient it reads.                       *)
(***************************************************************************)
InitCdc ==
    /\ \E a \in AreaValues : parcel_data = [area_sqm |-> a]
    /\ \E f \in FrontageValues :
          geometry_data = [MockGeometry EXCEPT !.frontage_m = f]
    /\ zone_code = MockZone
    /\ envelope_data = MockEnvelope
    /\ \E bp \in BOOLEAN, fp \in BOOLEAN, hi \in BOOLEAN, hca \in BOOLEAN,
          fbl \in BOOLEAN, rb \in BOOLEAN :
          constraints = [evaluate_constraints EXCEPT
                            !.bushfire_prone = bp, !.flood_prone = fp,
                            !.heritage_item = hi,
                            !.heritage_conservation_area = hca,
                            !.foreshore_building_line = fbl,
                            !.riparian_buffer = rb]
    /\ \E g \in GradientValues, fts \in BOOLEAN :
          slope_data = [mean_gradient_percent |-> g, falls_to_street |-> fts]
    /\ NoResults
    /\ ExtrasIdle
    /\ status = AllPending

NextCdc == EvaluateCdcPotential

SpecCdc == InitCdc /\ [][NextCdc]_vars

(***************************************************************************)
(* Full-application pathway: recommend_required_studies, then              *)
(* evaluate_da_potential, on every combination of the inputs they read.    *)
(***************************************************************************)
InitDa ==
    /\ parcel_data = MockParcel
    /\ \E r \in RegularityValues, cl \in BOOLEAN :
          geometry_data = [MockGeometry EXCEPT !.regularity_index = r,
                                               !.is_corner_lot = cl]
    /\ zone_code = MockZone
    /\ envelope_data = MockEnvelope
    /\ \E bp \in BOOLEAN, fp \in BOOLEAN, hi \in BOOLEAN, hca \in BOOLEAN,
          gr \in GeotechRisks, bio \in BOOLEAN, fbl \in BOOLEAN :
          constraints = [evaluate_constraints EXCEPT
                            !.bushfire_prone = bp, !.flood_prone = fp,
                            !.heritage_item = hi,
                            !.heritage_conservation_area = hca,
                            !.geotech_landslip_risk = gr,
                            !.biodiversity = bio,
                            !.foreshore_building_line = fbl]
    /\ \E g \in GradientValues :
          slope_data = [MockSlope EXCEPT !.mean_gradient_percent = g]
    /\ NoResults
    /\ ExtrasIdle
    /\ status = AllPending

NextDa == RecommendRequiredStudies \/ EvaluateDaPotential

SpecDa == InitDa /\ [][NextDa]_vars

(***************************************************************************)
(* Scenarios: every stage of the feasibility chain on one parcel, the      *)
(* stages in any order their inputs allow.                                 *)
(***************************************************************************)
InitScenario ==
    /\ \E a \in {450, 600} : parcel_data = [area_sqm |-> a]
    /\ \E f \in {140, 200}, r \in {700, 1000} :
          geometry_data = [MockGeometry EXCEPT !.frontage_m = f,
                                               !.regularity_index = r]
    /\ \E z \in {"R1", "R2", "R4"} : zone_code = z
    /\ \E fsr \in {60, 70} :
          envelope_data = [max_gfa_sqm |-> MaxGfaSqm(fsr, parcel_data.area_sqm),
                           fsr_control |-> fsr, max_height_m |-> 85]
    /\ \E hi \in BOOLEAN, bp \in BOOLEAN, gr \in {"Low", "Very High"} :
          constraints =
              [evaluate_constraints EXCEPT
                  !.heritage_item = hi, !.bushfire_prone = bp,
                  !.bushfire_category =
                      IF bp THEN Text(<<"Vegetation", "Category", "1">>)
                      ELSE None,
                  !.geotech_landslip_risk = gr]
    /\ \E g \in {65, 300} :
          slope_data = [MockSlope EXCEPT !.mean_gradient_percent = g]
    /\ NoResults
    /\ ExtrasIdle
    /\ status = AllPending

NextScenario ==
    \/ ComputeConstraintSeverity
    \/ RecommendRequiredStudies
    \/ DetermineAllowedTypologies
    \/ ComputeYield
    \/ EvaluateCdcPotential
    \/ EvaluateDaPotential
    \/ ComputeRiskRating

SpecScenario == InitScenario /\ [][NextScenario]_vars

(***************************************************************************)
(* Polygon metrics: compute_area_perimeter and compute_regularity_index on *)
(* every polygon of Polygons.                                              *)
(***************************************************************************)
\* runner.py:198
ComputeAreaPerimeter ==
    /\ status["area_perimeter"] = "pending"
    /\ area_perimeter' = compute_area_perimeter(polygon)
    /\ status' = [status EXCEPT !["area_perimeter"] = "done"]
    /\ UNCHANGED <<inputs, typologies, constraint_severity, yield_data,
                   cdc_potential, da_potential, overall_risk_rating,
                   required_studies, calls, polygon, regularity_value,
                   feasibility_notes, result, _settings, runs>>

\* runner.py:201
ComputeRegularityIndex ==
    /\ status["regularity"] = "pending"
    /\ regularity_value' = compute_regularity_index(polygon)
    /\ status' = [status EXCEPT !["regularity"] = "done"]
    /\ UNCHANGED <<inputs, typologies, constraint_severity, yield_data,
                   cdc_potential, da_potential, overall_risk_rating,
                   required_studies, calls, polygon, area_perimeter,
                   feasibility_notes, result, _settings, runs>>

InitGeometry ==
    /\ parcel_data = MockParcel
    /\ geometry_data = MockGeometry
    /\ constraints = evaluate_constraints
    /\ slope_data = MockSlope
    /\ zone_code = MockZone
    /\ envelope_data = MockEnvelope
    /\ NoResults
    /\ polygon \in Polygons
    /\ NoGeometryResults
    /\ NoCalls
    /\ NoRuns
    /\ status = AllPending

NextGeometry == ComputeAreaPerimeter \/ ComputeRegularityIndex

SpecGeometry == InitGeometry /\ [][NextGeometry]_vars

(***************************************************************************)
(* analyse_parcel: one run of the whole pipeline, its statements in the    *)
(* order of pipeline/runner.py.  The cadastre and the constraint layers    *)
(* are collaborators; what they supply is drawn from small sets.           *)
(***************************************************************************)
PipelineOrder_ConstraintsBeforeGeometry ==
    <<"resolve", "constraints", "geometry", "severity", "studies", "lep",
      "slope", "yield", "cdc", "da", "risk", "notes", "result">>

PipelineOrder ==
    <<"resolve", "geometry", "constraints", "severity", "studies", "lep",
      "slope", "yield", "cdc", "da", "risk", "notes", "result">>

\* control has reached the statement of stage st: every statement before it
\* has returned
At(st) ==
    \E i \in 1..Len(PipelineOrder) :
        /\ PipelineOrder[i] = st
        /\ status[st] = "pending"
        /\ \A j \in 1..(i - 1) : status[PipelineOrder[j]] = "done"

PipelinePolygons ==
    {MockPolygon, Rectangle(15, 40), Rectangle(20, 30), LShapePolygon,
     DegeneratePolygon}

PipelineConstraints ==
    {evaluate_constraints,
     [evaluate_constraints EXCEPT !.heritage_item = TRUE],
     [evaluate_constraints EXCEPT !.bushfire_prone = TRUE],
     [evaluate_constraints EXCEPT
         !.bushfire_prone = TRUE,
         !.bushfire_category = Text(<<"Vegetation", "Category", "1">>)],
     [evaluate_constraints EXCEPT
         !.flood_prone = TRUE, !.geotech_landslip_risk = "High",
         !.biodiversity = TRUE, !.foreshore_building_line = TRUE]}

\* runner.py:54
ResolveParcel ==
    /\ At("resolve")
    /\ \E a \in {450, 607} : parcel_data' = [area_sqm |-> a]
    /\ polygon' \in PipelinePolygons
    /\ status' = [status EXCEPT !["resolve"] = "done"]
    /\ UNCHANGED <<geometry_data, constraints, slope_data, zone_code,
                   envelope_data, typologies, constraint_severity,
                   yield_data, cdc_potential, da_potential,
                   overall_risk_rating, required_studies, calls, area_perimeter,
                   regularity_value, feasibility_notes, result, _settings,
                   runs>>

\* runner.py:57
ComputeGeometry ==
    /\ At("geometry")
    /\ area_perimeter' = compute_area_perimeter(polygon)
    /\ regularity_value' = compute_regularity_index(polygon)
    /\ geometry_data' = compute_geometry(polygon)
    /\ status' = [status EXCEPT !["geometry"] = "done",
                                !["area_perimeter"] = "done",
                                !["regularity"] = "done"]
    /\ UNCHANGED <<parcel_data, constraints, slope_data, zone_code,
                   envelope_data, typologies, constraint_severity,
                   yield_data, cdc_potential, da_potential,
                   overall_risk_rating, required_studies, calls, polygon,
                   feasibility_notes, result, _settings, runs>>

\* runner.py:63
EvaluateConstraints ==
    /\ At("constraints")
    /\ constraints' \in PipelineConstraints
    /\ status' = [status EXCEPT !["constraints"] = "done"]
    /\ UNCHANGED <<parcel_data, geometry_data, slope_data, zone_code,
                   envelope_data, typologies, constraint_severity,
                   yield_data, cdc_potential, da_potential,
                   overall_risk_rating, required_studies, extras>>

\* runner.py:68
EvaluateLepControls ==
    /\ At("lep")
    /\ zone_code' = MockZone
    /\ envelope_data' =
          [max_gfa_sqm |-> MaxGfaSqm(MockEnvelope.fsr_control,
                                     parcel_data.area_sqm),
           fsr_control |-> MockEnvelope.fsr_control,
           max_height_m |-> MockEnvelope.max_height_m]
    /\ typologies' = determine_allowed_typologies(MockZone,
                         parcel_data.area_sqm, geometry_data)
    /\ status' = [status EXCEPT !["lep"] = "done", !["typologies"] = "done"]
    /\ UNCHANGED <<parcel_data, geometry_data, constraints, slope_data,
                   constraint_severity, yield_data, cdc_potential,
                   da_potential, overall_risk_rating, required_studies,
                   extras>>

\* runner.py:71
ComputeSlopeMetrics ==
    /\ At("slope")
    /\ slope_data' = compute_slope_metrics(NoArg,
                         Arg(geometry_data.boundaries.front.orientation_deg))
    /\ status' = [status EXCEPT !["slope"] = "done"]
    /\ UNCHANGED <<parcel_data, geometry_data, constraints, zone_code,
                   envelope_data, typologies, constraint_severity,
                   yield_data, cdc_potential, da_potential,
                   overall_risk_rating, required_studies, extras>>

\* runner.py:107
GenerateFeasibilityNotes ==
    /\ At("notes")
    /\ feasibility_notes' =
          generate_feasibility_notes(zone_code, envelope_data.fsr_control,
                                     cdc_potential, da_potential, yield_data,
                                     constraints)
    /\ status' = [status EXCEPT !["notes"] = "done"]
    /\ UNCHANGED <<inputs, typologies, constraint_severity, yield_data,
                   cdc_potential, da_potential, overall_risk_rating,
                   required_studies, calls, polygon, area_perimeter,
                   regularity_value, result, _settings, runs>>

\* runner.py:117-145
AssembleResult ==
    /\ At("result")
    /\ result' = [parcel |-> parcel_data,
                  geometry |-> geometry_data,
                  constraints |-> constraints,
                  slope |-> slope_data,
                  envelope |-> envelope_data,
                  yield |-> yield_data,
                  cdc_potential |-> cdc_potential,
                  da_potential |-> da_potential,
                  overall_risk_rating |-> overall_risk_rating,
                  notes |-> feasibility_notes]
    /\ status' = [status EXCEPT !["result"] = "done"]
    /\ UNCHANGED <<inputs, typologies, constraint_severity, yield_data,
                   cdc_potential, da_potential, overall_risk_rating,
                   required_studies, calls, polygon, area_perimeter,
                   regularity_value, feasibility_notes, _settings, runs>>

\* fastapi_app.py:55: an exception of any stage leaves analyse_parcel and
\* becomes an HTTP 500; no result is returned
RaiseHttpException ==
    /\ status["result"] = "pending"
    /\ \E st \in Stages : status[st] = "raised"
    /\ status' = [status EXCEPT !["result"] = "raised"]
    /\ UNCHANGED <<inputs, typologies, constraint_severity, yield_data,
                   cdc_potential, da_potential, overall_risk_rating,
                   required_studies, extras>>

Init ==
    /\ parcel_data = NoResult
    /\ geometry_data = NoResult
    /\ constraints = NoResult
    /\ slope_data = NoResult
    /\ zone_code = ""
    /\ envelope_data = NoResult
    /\ NoResults
    /\ polygon = <<>>
    /\ NoGeometryResults
    /\ NoCalls
    /\ NoRuns
    /\ status = AllPending

Next ==
    \/ ResolveParcel
    \/ ComputeGeometry
    \/ EvaluateConstraints
    \/ At("severity") /\ ComputeConstraintSeverity
    \/ At("studies") /\ RecommendRequiredStudies
    \/ EvaluateLepControls
    \/ ComputeSlopeMetrics
    \/ At("yield") /\ ComputeYield
    \/ At("cdc") /\ EvaluateCdcPotential
    \/ At("da") /\ EvaluateDaPotential
    \/ At("risk") /\ ComputeRiskRating
    \/ GenerateFeasibilityNotes
    \/ AssembleResult
    \/ RaiseHttpException

Spec == Init /\ [][Next]_vars

(***************************************************************************)
(* Concurrent runs of analyse_parcel.  A run's stages work on its locals;  *)
(* the module global _settings of config/settings.py is the one object the *)
(* runs share, reached through get_settings.  A thread switch can fall     *)
(* between any two statements of get_settings.                             *)
(***************************************************************************)
\* Settings(): the dataclass defaults the stages read
DefaultSettings ==
    [BUSHFIRE_WEIGHT |-> BUSHFIRE_WEIGHT, FLOOD_WEIGHT |-> FLOOD_WEIGHT,
     HERITAGE_WEIGHT |-> HERITAGE_WEIGHT, GEOTECH_WEIGHT |-> GEOTECH_WEIGHT,
     BIODIVERSITY_WEIGHT |-> BIODIVERSITY_WEIGHT, MISC_WEIGHT |-> MISC_WEIGHT,
     CDC_MAX_SLOPE_PERCENT |-> CDC_MAX_SLOPE_PERCENT,
     MIN_LOT_AREA_DUAL_OCC_SQM |-> MIN_LOT_AREA_DUAL_OCC_SQM,
     MIN_FRONTAGE_DUAL_OCC_M |-> MIN_FRONTAGE_DUAL_OCC_M,
     MIN_FSR_TERRACE |-> MIN_FSR_TERRACE,
     MIN_FSR_MULTI_DWELLING |-> MIN_FSR_MULTI_DWELLING,
     AVERAGE_UNIT_SIZE_TOWNHOUSE_SQM |-> AVERAGE_UNIT_SIZE_TOWNHOUSE_SQM]

\* the object a call of Settings() creates; two such objects differ in
\* identity only, which the code never compares
NewSettings == [values |-> DefaultSettings]

\* the calls of get_settings one run makes, in order
SettingsCalls ==
    <<"analyse_parcel", "compute_geometry", "compute_constraint_severity",
      "evaluate_lep_controls", "determine_allowed_typologies",
      "calculate_setbacks", "compute_yield", "evaluate_cdc_potential">>

\* the stages of analyse_parcel that follow compute_geometry
analyse_stages(geometry, parcel, c) ==
    LET envelope == [max_gfa_sqm |-> MaxGfaSqm(MockEnvelope.fsr_control,
                                               parcel.area_sqm),
                     fsr_control |-> MockEnvelope.fsr_control,
                     max_height_m |-> MockEnvelope.max_height_m]
        typ == determine_allowed_typologies(MockZone, parcel.area_sqm,
                                            geometry)
        slope == compute_slope_metrics(NoArg,
                     Arg(geometry.boundaries.front.orientation_deg))
        studies == recommend_required_studies(c)
        yld == compute_yield(parcel, geometry, envelope, typ, c)
        cdc == evaluate_cdc_potential(parcel, geometry, c, slope)
        da == evaluate_da_potential(parcel, geometry, c, slope, studies)
    IN  IF BushfireRaises(c) THEN [raised |-> TRUE]
        ELSE [parcel |-> parcel,
              geometry |-> geometry,
              constraints |-> c,
              slope |-> slope,
              envelope |-> envelope,
              yield |-> yld,
              cdc_potential |-> cdc,
              da_potential |-> da,
              overall_risk_rating |->
                  compute_risk_rating(c, compute_constraint_severity(c),
                                      slope, geometry),
              notes |-> generate_feasibility_notes(
                            MockZone, envelope.fsr_control, cdc, da, yld, c)]

\* analyse_parcel as a function of what its collaborators supply
analyse_parcel(coords, parcel, c) ==
    analyse_stages(compute_geometry(coords), parcel, c)

\* what the constraint layers supply to the runs
ConcurrentConstraints ==
    {evaluate_constraints,
     [evaluate_constraints EXCEPT !.heritage_item = TRUE]}

\* settings.py:68, `return _settings`: the global as it is at the return
GetSettingsReturnValue_StaleRead(r) == runs[r].seen

GetSettingsReturnValue(r) == _settings

\* settings.py:66, `if _settings is None`
GetSettingsTest(r) ==
    /\ runs[r].pc = "test"
    /\ runs' = [runs EXCEPT ![r].seen = _settings,
                            ![r].pc = IF _settings = None THEN "create"
                                      ELSE "return"]
    /\ UNCHANGED <<inputs, typologies, constraint_severity, yield_data,
                   cdc_potential, da_potential, overall_risk_rating,
                   required_studies, calls, status, polygon, area_perimeter,
                   regularity_value, feasibility_notes, result, _settings>>

\* settings.py:67, `_settings = Settings()`
GetSettingsCreate(r) ==
    /\ runs[r].pc = "create"
    /\ _settings' = NewSettings
    /\ runs' = [runs EXCEPT ![r].pc = "return"]
    /\ UNCHANGED <<inputs, typologies, constraint_severity, yield_data,
                   cdc_potential, da_potential, overall_risk_rating,
                   required_studies, calls, status, polygon, area_perimeter,
                   regularity_value, feasibility_notes, result>>

\* settings.py:68, and the caller's `settings = get_settings()`; a caller
\* handed None raises on the first attribute it reads; compute_geometry
\* (runner.py:192-230) goes on to derive the run's geometry record
GetSettingsReturn(r) ==
    /\ runs[r].pc = "return"
    /\ runs' = [runs EXCEPT
                   ![r].settings = GetSettingsReturnValue(r),
                   ![r].raised = @ \/ GetSettingsReturnValue(r) = None,
                   ![r].seen = None,
                   ![r].geometry =
                       IF SettingsCalls[runs[r].call] = "compute_geometry"
                       THEN compute_geometry(MockPolygon) ELSE @,
                   ![r].call = @ + 1,
                   ![r].pc = IF runs[r].call < Len(SettingsCalls)
                             THEN "test" ELSE "assemble"]
    /\ UNCHANGED <<inputs, typologies, constraint_severity, yield_data,
                   cdc_potential, da_potential, overall_risk_rating,
                   required_studies, calls, status, polygon, area_perimeter,
                   regularity_value, feasibility_notes, result, _settings>>

\* runner.py:117-145, or the exception of a stage leaving analyse_parcel
ReturnResult(r) ==
    /\ runs[r].pc = "assemble"
    /\ runs' = [runs EXCEPT
                   ![r].pc = "done",
                   ![r].result =
                       IF runs[r].raised THEN [raised |-> TRUE]
                       ELSE analyse_stages(runs[r].geometry, MockParcel,
                                           runs[r].constraints)]
    /\ UNCHANGED <<inputs, typologies, constraint_severity, yield_data,
                   cdc_potential, da_potential, overall_risk_rating,
                   required_studies, calls, status, polygon, area_perimeter,
                   regularity_value, feasibility_notes, result, _settings>>

InitConcurrent ==
    /\ parcel_data = NoResult
    /\ geometry_data = NoResult
    /\ constraints = NoResult
    /\ slope_data = NoResult
    /\ zone_code = ""
    /\ envelope_data = NoResult
    /\ NoResults
    /\ polygon = <<>>
    /\ NoGeometryResults
    /\ NoCalls
    /\ feasibility_notes = <<>>
    /\ result = NoResult
    /\ status = AllPending
    /\ _settings = None
    /\ \E cs \in [1..NumRuns -> ConcurrentConstraints] :
          runs = [r \in 1..NumRuns |->
                     [pc |-> "test", call |-> 1, seen |-> None,
                      settings |-> None, raised |-> FALSE,
                      geometry |-> NoResult,
                      constraints |-> cs[r], result |-> NoResult]]

NextConcurrent ==
    \E r \in 1..NumRuns :
        \/ GetSettingsTest(r)
        \/ GetSettingsCreate(r)
        \/ GetSettingsReturn(r)
        \/ ReturnResult(r)

SpecConcurrent == InitConcurrent /\ [][NextConcurrent]_vars

(***************************************************************************)
(* Slope: compute_slope_metrics called directly, with and without DEM data *)
(* and with every front orientation identify_boundaries can report, or     *)
(* none.                                                                   *)
(***************************************************************************)
OrientationValues == 0..360

\* slope.py:13
CallComputeSlopeMetrics ==
    /\ status["slope"] = "pending"
    /\ slope_data' = compute_slope_metrics(slope_args.dem_data,
                                           slope_args.front_orientation_deg)
    /\ status' = [status EXCEPT !["slope"] = "done"]
    /\ UNCHANGED <<parcel_data, geometry_data, constraints, zone_code,
                   envelope_data, typologies, constraint_severity,
                   yield_data, cdc_potential, da_potential,
                   overall_risk_rating, required_studies, extras>>

InitSlope ==
    /\ parcel_data = MockParcel
    /\ geometry_data = MockGeometry
    /\ constraints = evaluate_constraints
    /\ zone_code = MockZone
    /\ envelope_data = MockEnvelope
    /\ slope_data = NoResult
    /\ NoResults
    /\ polygon = MockPolygon
    /\ NoGeometryResults
    /\ NoRuns
    /\ \E dem \in {NoArg, Arg("dem")},
          front \in {NoArg} \cup {Arg(d) : d \in OrientationValues} :
          slope_args = [dem_data |-> dem, front_orientation_deg |-> front]
    /\ boundaries = NoResult
    /\ status = AllPending

NextSlope == CallComputeSlopeMetrics

SpecSlope == InitSlope /\ [][NextSlope]_vars

(***************************************************************************)
(* Boundaries: identify_boundaries called directly on rings of either      *)
(* winding, starting at any vertex.                                        *)
(***************************************************************************)
\* the ring started k vertices later
RotateRing(coords, k) ==
    LET n == Len(coords) - 1
    IN  [i \in 1..(n + 1) |-> coords[((i - 1 + k) % n) + 1]]

\* the ring with the opposite winding
ReverseRing(coords) ==
    [i \in 1..Len(coords) |-> coords[Len(coords) + 1 - i]]

Rings(coords) ==
    {RotateRing(c, k) : c \in {coords, ReverseRing(coords)},
                        k \in 0..(Len(coords) - 2)}

\* a lot of width w and depth h whose side boundaries lean by s metres
Parallelogram(w, h, s) ==
    <<<<0, 0>>, <<w, 0>>, <<w + s, h>>, <<s, h>>, <<0, 0>>>>

\* two front edges with the same midpoint north coordinate
DiamondPolygon == <<<<4, 0>>, <<8, 3>>, <<4, 6>>, <<0, 3>>, <<4, 0>>>>

Lots ==
    UNION {Rings(c) :
             c \in {Rectangle(w, h) : w \in 1..MaxSide, h \in 1..MaxSide}
                   \cup {Parallelogram(w, h, s) :
                            w \in {15, 20}, h \in {40, 120}, s \in {-1, 1}}
                   \cup {MockPolygon, LShapePolygon, TrianglePolygon,
                         OctagonPolygon, DiamondPolygon}}
    \cup {DegeneratePolygon}

\* boundaries.py:38
IdentifyBoundaries ==
    /\ status["boundaries"] = "pending"
    /\ boundaries' = identify_boundaries(polygon)
    /\ status' = [status EXCEPT !["boundaries"] = "done"]
    /\ UNCHANGED <<inputs, typologies, constraint_severity, yield_data,
                   cdc_potential, da_potential, overall_risk_rating,
                   required_studies, polygon, area_perimeter,
                   regularity_value, feasibility_notes, result, _settings,
                   runs, slope_args>>

InitBoundaries ==
    /\ parcel_data = MockParcel
    /\ geometry_data = MockGeometry
    /\ constraints = evaluate_constraints
    /\ slope_data = MockSlope
    /\ zone_code = MockZone
    /\ envelope_data = MockEnvelope
    /\ NoResults
    /\ polygon \in Lots
    /\ NoGeometryResults
    /\ NoCalls
    /\ NoRuns
    /\ status = AllPending

NextBoundaries == IdentifyBoundaries

SpecBoundaries == InitBoundaries /\ [][NextBoundaries]_vars

(***************************************************************************)
(* Properties.                                                             *)
(***************************************************************************)
Range(xs) == {xs[i] : i \in 1..Len(xs)}

Clamp(x, lo, hi) == IF x < lo THEN lo ELSE IF x > hi THEN hi ELSE x

\* None < Low < Medium < High < Red-Flag
RatingRank(r) ==
    CASE r = "None" -> 0 [] r = "Low" -> 1 [] r = "Medium" -> 2
      [] r = "High" -> 3 [] r = "Red-Flag" -> 4

\* the five-tier table of the specification
TierOf(score) ==
    CASE score = 0 -> "None"
      [] score \in 1..3 -> "Low"
      [] score \in 4..7 -> "Medium"
      [] score \in 8..12 -> "High"
      [] score > 12 -> "Red-Flag"

\* C1: whenever evaluate_cdc_potential has returned,
\* is_potentially_cdc_compliant is true iff blocking_constraints is empty,
\* and likely_pathway is "CDC Possible" exactly when it is true and
\* "DA Only" otherwise.
C1_CdcCompliantIffNoBlocking ==
    status["cdc"] = "done" =>
        /\ cdc_potential.is_potentially_cdc_compliant
             <=> cdc_potential.blocking_constraints = <<>>
        /\ cdc_potential.likely_pathway = "CDC Possible"
             <=> cdc_potential.is_potentially_cdc_compliant
        /\ cdc_potential.likely_pathway = "DA Only"
             <=> ~cdc_potential.is_potentially_cdc_compliant

C1_Witness ==
    /\ status["cdc"] = "done"
    /\ slope_data.mean_gradient_percent = 300
    /\ cdc_potential.blocking_constraints
         = << <<"Slope too steep for CDC", 300>> >>
    /\ ~cdc_potential.is_potentially_cdc_compliant
    /\ cdc_potential.likely_pathway = "DA Only"

\* C2: the rating compute_risk_rating returns is the tier of
\* total_score + (3 if mean gradient > 25, else 2 if > 15, else 0)
\*             + (1 if regularity_index < 0.75, else 0),
\* whatever the other fields of its four inputs hold.
C2_RiskRatingFromScore ==
    status["risk"] = "done" =>
        LET g == slope_data.mean_gradient_percent
            score == constraint_severity.total_score
                       + (IF g > 250 THEN 3 ELSE IF g > 150 THEN 2 ELSE 0)
                       + (IF geometry_data.regularity_index < 750
                          THEN 1 ELSE 0)
        IN  overall_risk_rating = TierOf(score)

C2_Witness ==
    /\ status["risk"] = "done"
    /\ constraint_severity.total_score = 5
    /\ slope_data.mean_gradient_percent = 300
    /\ geometry_data.regularity_index >= 750
    /\ overall_risk_rating = "High"

\* C3: whenever evaluate_da_potential has returned, is_likely_supportable is
\* false iff heritage_item is set or the geotech risk is "Very High";
\* red_flags holds "Heritage Item" exactly when heritage_item is set and
\* "Very High Landslip Risk" exactly when the geotech risk is "Very High";
\* red_flags is non-empty iff the DA is not supportable.
C3_DaSupportability ==
    status["da"] = "done" =>
        /\ ~da_potential.is_likely_supportable
             <=> (constraints.heritage_item
                    \/ constraints.geotech_landslip_risk = "Very High")
        /\ "Heritage Item" \in Range(da_potential.red_flags)
             <=> constraints.heritage_item
        /\ "Very High Landslip Risk" \in Range(da_potential.red_flags)
             <=> constraints.geotech_landslip_risk = "Very High"
        /\ da_potential.red_flags # <<>>
             <=> ~da_potential.is_likely_supportable

C3_Witness ==
    /\ status["da"] = "done"
    /\ ~constraints.heritage_item
    /\ constraints.geotech_landslip_risk = "Very High"
    /\ ~da_potential.is_likely_supportable
    /\ da_potential.red_flags = <<"Very High Landslip Risk">>

\* C4: whenever compute_yield has returned, the primary typology and count
\* are those of the first feasible typology in the order dual occupancy (2),
\* manor house (3), multi-dwelling (floor(max_gfa / unit size) clamped to
\* 2..6), terrace/row (same quotient clamped to 3..6), single dwelling (1);
\* the count is between 1 and 6.
C4_YieldPriorityOrder ==
    status["yield"] = "done" =>
        LET y == yield_data
            q == envelope_data.max_gfa_sqm \div AVERAGE_UNIT_SIZE_TOWNHOUSE_SQM
            got == <<y.primary_typology, y.indicative_dwellings_count>>
        IN  /\ got = IF y.dual_occ_feasible THEN <<"Dual Occupancy", 2>>
                     ELSE IF y.manor_house_feasible THEN <<"Manor House", 3>>
                     ELSE IF y.multi_dwelling_feasible
                     THEN <<"Multi-Dwelling Housing", Clamp(q, 2, 6)>>
                     ELSE IF y.terrace_row_feasible
                     THEN <<"Terrace/Row Housing", Clamp(q, 3, 6)>>
                     ELSE <<"Single Dwelling", 1>>
            /\ y.indicative_dwellings_count \in 1..6

C4_Witness ==
    /\ status["yield"] = "done"
    /\ yield_data.dual_occ_feasible
    /\ yield_data.manor_house_feasible
    /\ yield_data.multi_dwelling_feasible
    /\ envelope_data.max_gfa_sqm = 7000
    /\ yield_data.primary_typology = "Dual Occupancy"
    /\ yield_data.indicative_dwellings_count = 2

\* C5: whenever compute_constraint_severity has returned, each category's
\* severity is the one of the fixed table: bushfire 0 when not prone, else 3
\* if the category text contains "Category 1", else 2 if it contains
\* "Category 2", else 1; flood 3 or 0; heritage 3 for an item, else 2 for a
\* conservation area, else 0; geotech 3/2/1/0; biodiversity 2 or 0; misc
\* (the unit-weight remainder of total_score) the number of other overlays.
C5_SeverityTable ==
    status["severity"] = "done" =>
        LET c == constraints
            s == constraint_severity
            text == c.bushfire_category.words
        IN  /\ s.bushfire_severity =
                 IF ~c.bushfire_prone THEN 0
                 ELSE IF Contains(<<"Category", "1">>, text) THEN 3
                 ELSE IF Contains(<<"Category", "2">>, text) THEN 2
                 ELSE 1
            /\ s.flood_severity = IF c.flood_prone THEN 3 ELSE 0
            /\ s.heritage_severity =
                 IF c.heritage_item THEN 3
                 ELSE IF c.heritage_conservation_area THEN 2 ELSE 0
            /\ s.geotech_severity =
                 CASE c.geotech_landslip_risk = "Very High" -> 3
                   [] c.geotech_landslip_risk = "High" -> 2
                   [] c.geotech_landslip_risk = "Moderate" -> 1
                   [] c.geotech_landslip_risk = "Low" -> 0
            /\ s.biodiversity_severity = IF c.biodiversity THEN 2 ELSE 0
            /\ s.total_score
                 - (3 * s.bushfire_severity + 3 * s.flood_severity
                      + 4 * s.heritage_severity + 2 * s.geotech_severity
                      + s.biodiversity_severity)
                 = Len(c.other_overlays)

C5_Witness ==
    /\ status["severity"] = "done"
    /\ constraints.bushfire_prone
    /\ constraints.bushfire_category
         = Text(<<"Category", "2", "adjoining", "Category", "1">>)
    /\ constraint_severity.bushfire_severity = 3
    /\ constraint_severity.heritage_severity = 2
    /\ constraint_severity.geotech_severity = 1
    /\ Len(constraints.other_overlays) = 2

\* C6: whenever compute_constraint_severity has returned, total_score is
\* 3*bushfire + 3*flood + 4*heritage + 2*geotech + 1*biodiversity + 1*misc
\* severity, and rating is None for 0, Low for 1..3, Medium for 4..7, High
\* for 8..12 and Red-Flag above 12.
C6_WeightedScoreAndRating ==
    status["severity"] = "done" =>
        LET s == constraint_severity
        IN  /\ s.total_score =
                 3 * s.bushfire_severity + 3 * s.flood_severity
                   + 4 * s.heritage_severity + 2 * s.geotech_severity
                   + 1 * s.biodiversity_severity
                   + 1 * Len(constraints.other_overlays)
            /\ s.rating = TierOf(s.total_score)

C6_Witness ==
    /\ status["severity"] = "done"
    /\ constraint_severity.heritage_severity = 3
    /\ constraint_severity.biodiversity_severity = 2
    /\ Len(constraints.other_overlays) = 1
    /\ constraint_severity.total_score = 15
    /\ constraint_severity.rating = "Red-Flag"

\* C7: when the slope and regularity penalties are both zero, the rating
\* compute_risk_rating returns equals the rating compute_constraint_severity
\* gave the same total_score.
C7_SameRatingTable ==
    (/\ status["risk"] = "done"
     /\ slope_data.mean_gradient_percent <= 150
     /\ geometry_data.regularity_index >= 750)
        => overall_risk_rating = constraint_severity.rating

C7_Witness ==
    /\ status["risk"] = "done"
    /\ slope_data.mean_gradient_percent = 150
    /\ geometry_data.regularity_index = 750
    /\ constraint_severity.total_score = 8
    /\ constraint_severity.rating = "High"
    /\ overall_risk_rating = "High"

\* the constraint sets that differ from c in the inputs of one category only
\* and give that category at least the severity c gives it
SingleCategoryRaised(c) ==
    {c2 \in {[c EXCEPT !.bushfire_prone = bp, !.bushfire_category = bc] :
                 bp \in BOOLEAN, bc \in BushfireCategories} :
        ~BushfireRaises(c2) /\ BushfireSeverity(c2) >= BushfireSeverity(c)}
    \cup {c2 \in {[c EXCEPT !.flood_prone = fp] : fp \in BOOLEAN} :
            FloodSeverity(c2) >= FloodSeverity(c)}
    \cup {c2 \in {[c EXCEPT !.heritage_item = hi,
                            !.heritage_conservation_area = hca] :
                     hi \in BOOLEAN, hca \in BOOLEAN} :
            HeritageSeverity(c2) >= HeritageSeverity(c)}
    \cup {c2 \in {[c EXCEPT !.geotech_landslip_risk = gr] :
                     gr \in GeotechRisks} :
            GeotechSeverity(c2) >= GeotechSeverity(c)}
    \cup {c2 \in {[c EXCEPT !.biodiversity = bio] : bio \in BOOLEAN} :
            BiodiversitySeverity(c2) >= BiodiversitySeverity(c)}
    \cup {c2 \in {[c EXCEPT !.other_overlays = oo] : oo \in OverlayLists} :
            MiscSeverity(c2) >= MiscSeverity(c)}

\* C8: whenever compute_constraint_severity has returned for a constraint
\* set, every constraint set that raises the severity of one category and
\* leaves the others unchanged gets a total_score at least as large and a
\* rating at least as severe.
C8_ScoreMonotone ==
    status["severity"] = "done" =>
        \A c2 \in SingleCategoryRaised(constraints) :
            LET s2 == compute_constraint_severity(c2)
            IN  /\ s2.total_score >= constraint_severity.total_score
                /\ RatingRank(s2.rating)
                     >= RatingRank(constraint_severity.rating)

C8_Witness ==
    /\ status["severity"] = "done"
    /\ constraint_severity.total_score = 7
    /\ \E c2 \in SingleCategoryRaised(constraints) :
          LET s2 == compute_constraint_severity(c2)
          IN  /\ c2.biodiversity /\ ~constraints.biodiversity
              /\ s2.total_score = 9
              /\ constraint_severity.rating = "Medium"
              /\ s2.rating = "High"

\* C9: whenever determine_allowed_typologies has returned, dual_occupancy
\* holds iff zone in {R1,R2,R3}, area >= MIN_LOT_AREA_DUAL_OCC_SQM and
\* frontage >= MIN_FRONTAGE_DUAL_OCC_M; terrace_row iff zone in {R1,R3};
\* manor_house iff zone in {R1,R2} and area >= 600; multi_dwelling iff zone
\* in {R1,R3}; apartments iff zone in {R3,R4}.
C9_TypologyGates ==
    status["typologies"] = "done" =>
        LET z == zone_code
            area == parcel_data.area_sqm
            frontage == geometry_data.frontage_m
        IN  /\ typologies.dual_occupancy
                 <=> (/\ z \in {"R1", "R2", "R3"}
                      /\ area >= MIN_LOT_AREA_DUAL_OCC_SQM
                      /\ frontage >= MIN_FRONTAGE_DUAL_OCC_M)
            /\ typologies.terrace_row <=> z \in {"R1", "R3"}
            /\ typologies.manor_house <=> (z \in {"R1", "R2"} /\ area >= 600)
            /\ typologies.multi_dwelling <=> z \in {"R1", "R3"}
            /\ typologies.apartments <=> z \in {"R3", "R4"}

C9_Witness ==
    /\ status["typologies"] = "done"
    /\ zone_code = "R2"
    /\ parcel_data.area_sqm = 600
    /\ geometry_data.frontage_m = 149
    /\ typologies = [dual_occupancy |-> FALSE, terrace_row |-> FALSE,
                     manor_house |-> TRUE, multi_dwelling |-> FALSE,
                     apartments |-> FALSE]

\* C10: for a zone code outside {R1,R2,R3,R4}, whatever the area and
\* frontage, determine_allowed_typologies returns (it does not raise) and
\* all five typology flags are false.
C10_UnknownZoneNotFeasible ==
    (zone_code \notin {"R1", "R2", "R3", "R4"}
       /\ status["typologies"] # "pending")
        => /\ status["typologies"] = "done"
           /\ ~typologies.dual_occupancy
           /\ ~typologies.terrace_row
           /\ ~typologies.manor_house
           /\ ~typologies.multi_dwelling
           /\ ~typologies.apartments

C10_Witness ==
    /\ status["typologies"] = "done"
    /\ zone_code = "R5"
    /\ parcel_data.area_sqm = 900
    /\ geometry_data.frontage_m = 200
    /\ \A k \in DOMAIN typologies : ~typologies[k]

\* the entries of xs at the positions where keep is true, in order
RECURSIVE Kept(_, _)
Kept(xs, keep) ==
    IF xs = <<>> THEN <<>>
    ELSE LET n == Len(xs)
             front == Kept(SubSeq(xs, 1, n - 1), SubSeq(keep, 1, n - 1))
         IN  IF keep[n] THEN Append(front, xs[n]) ELSE front

\* C19: whenever evaluate_cdc_potential has returned, blocking_constraints
\* holds one entry for each of the nine conditions that holds and none for a
\* condition that does not, in the order bushfire prone, flood prone,
\* heritage item, heritage conservation area, foreshore building line,
\* riparian buffer, area below MIN_LOT_AREA_DUAL_OCC_SQM, frontage below
\* MIN_FRONTAGE_DUAL_OCC_M, mean gradient above 20 percent.
C19_BlockingListInCheckOrder ==
    status["cdc"] = "done" =>
        LET c == constraints
            b == cdc_potential.blocking_constraints
            holds == <<c.bushfire_prone, c.flood_prone, c.heritage_item,
                       c.heritage_conservation_area,
                       c.foreshore_building_line, c.riparian_buffer,
                       parcel_data.area_sqm < MIN_LOT_AREA_DUAL_OCC_SQM,
                       geometry_data.frontage_m < MIN_FRONTAGE_DUAL_OCC_M,
                       slope_data.mean_gradient_percent > 200>>
            entries == <<"Bushfire (BAL > 40 requires report)",
                         "Flood control lot", "Heritage Item",
                         "Heritage Conservation Area",
                         "Foreshore Building Line", "Riparian Buffer",
                         "Insufficient lot area", "Insufficient frontage",
                         "Slope too steep for CDC">>
        IN  [i \in 1..Len(b) |-> b[i][1]] = Kept(entries, holds)

C19_Witness ==
    /\ status["cdc"] = "done"
    /\ cdc_potential.blocking_constraints
         = << <<"Flood control lot">>, <<"Riparian Buffer">>,
              <<"Insufficient lot area", 599>>,
              <<"Insufficient frontage", 149>>,
              <<"Slope too steep for CDC", 201>> >>

\* the number of issues evaluate_da_potential lists ahead of the generic
\* bulk & scale issue
IssuesAheadOfBulk ==
    LET c == constraints
        n(cond) == IF cond THEN 1 ELSE 0
    IN  n(c.bushfire_prone) + n(c.flood_prone)
          + n(c.heritage_item \/ c.heritage_conservation_area)
          + n(slope_data.mean_gradient_percent > 150)
          + n(c.geotech_landslip_risk \in {"High", "Very High"})
          + n(geometry_data.regularity_index < 750)

\* C20 as stated: for every input the key_issues list returned holds the
\* generic "Streetscape bulk & scale" issue.
C20_BulkAndScaleAlwaysListed ==
    status["da"] = "done" =>
        "Streetscape bulk & scale" \in Range(da_potential.key_issues)

\* C20 as amended: the key_issues list returned holds the generic
\* "Streetscape bulk & scale" issue exactly when at most four issues are
\* listed ahead of it (of bushfire, flood, heritage, slope > 15%,
\* geotechnical High/Very High, regularity < 0.75); with five or six ahead
\* of it the cap of 5 cuts it off.
C20_BulkAndScaleListedUnlessCapped ==
    status["da"] = "done" =>
        ("Streetscape bulk & scale" \in Range(da_potential.key_issues)
            <=> IssuesAheadOfBulk <= 4)

C20_Witness ==
    /\ status["da"] = "done"
    /\ IssuesAheadOfBulk = 4
    /\ geometry_data.is_corner_lot
    /\ Len(da_potential.key_issues) = 5
    /\ da_potential.key_issues[5] = "Streetscape bulk & scale"

\* the parcel of the two scenarios: 600 m2, 20 m frontage, regularity 1.0,
\* zone R1, FSR 0.6, default slope values
ScenarioParcel ==
    /\ parcel_data.area_sqm = 600
    /\ geometry_data.frontage_m = 200
    /\ geometry_data.regularity_index = 1000
    /\ zone_code = "R1"
    /\ envelope_data.fsr_control = 60
    /\ slope_data = MockSlope

\* C11: on the scenario parcel with no constraint flag set, the typology
\* stage gives dual_occupancy, the yield stage gives dual occupancy feasible
\* with primary typology Dual Occupancy and 2 dwellings, the fast-track
\* stage gives eligible with an empty blocking list, and the risk stage
\* gives None or Low.
C11_BaselineScenario ==
    (ScenarioParcel /\ constraints = evaluate_constraints) =>
        /\ status["typologies"] = "done" => typologies.dual_occupancy
        /\ status["yield"] = "done" =>
              /\ yield_data.dual_occ_feasible
              /\ yield_data.primary_typology = "Dual Occupancy"
              /\ yield_data.indicative_dwellings_count = 2
        /\ status["cdc"] = "done" =>
              /\ cdc_potential.is_potentially_cdc_compliant
              /\ cdc_potential.blocking_constraints = <<>>
        /\ status["risk"] = "done" =>
              overall_risk_rating \in {"None", "Low"}

C11_Witness ==
    /\ ScenarioParcel
    /\ constraints = evaluate_constraints
    /\ \A st \in {"typologies", "yield", "cdc", "risk"} : status[st] = "done"
    /\ yield_data.primary_typology = "Dual Occupancy"
    /\ cdc_potential.likely_pathway = "CDC Possible"
    /\ overall_risk_rating = "None"

\* C12: on the scenario parcel with heritage_item set (and no other flag),
\* the yield stage gives dual occupancy not feasible, the DA stage gives not
\* supportable with a heritage entry in red_flags, and the fast-track stage
\* lists a heritage entry in blocking_constraints and is not eligible.
C12_HeritageScenario ==
    (/\ ScenarioParcel
     /\ constraints = [evaluate_constraints EXCEPT !.heritage_item = TRUE])
        =>
        /\ status["yield"] = "done" => ~yield_data.dual_occ_feasible
        /\ status["da"] = "done" =>
              /\ ~da_potential.is_likely_supportable
              /\ "Heritage Item" \in Range(da_potential.red_flags)
        /\ status["cdc"] = "done" =>
              /\ <<"Heritage Item">>
                   \in Range(cdc_potential.blocking_constraints)
              /\ ~cdc_potential.is_potentially_cdc_compliant

C12_Witness ==
    /\ ScenarioParcel
    /\ constraints = [evaluate_constraints EXCEPT !.heritage_item = TRUE]
    /\ \A st \in {"typologies", "yield", "cdc", "da"} : status[st] = "done"
    /\ typologies.dual_occupancy
    /\ ~yield_data.dual_occ_feasible
    /\ da_potential.red_flags = <<"Heritage Item">>
    /\ cdc_potential.blocking_constraints = << <<"Heritage Item">> >>

\* four edges of one positive length, consecutive edges at right angles
IsSquare(coords) ==
    /\ Len(coords) = 5
    /\ LET dx(i) == coords[i + 1][1] - coords[i][1]
           dy(i) == coords[i + 1][2] - coords[i][2]
       IN  /\ dx(1) * dx(1) + dy(1) * dy(1) > 0
           /\ \A i \in 1..4 :
                 dx(i) * dx(i) + dy(i) * dy(i) = dx(1) * dx(1) + dy(1) * dy(1)
           /\ \A i \in 1..3 : dx(i) * dx(i + 1) + dy(i) * dy(i + 1) = 0

\* C13: compute_regularity_index returns a value in [0,1] for every
\* polygon, 1.0 for every square, and 0 when the perimeter is 0.
C13_RegularityRange ==
    status["regularity"] = "done" =>
        /\ regularity_value \in 0..1000
        /\ IsSquare(polygon) => regularity_value = 1000
        /\ PolygonLength(polygon) = 0 => regularity_value = 0

C13_Witness ==
    /\ status["regularity"] = "done"
    /\ polygon = DegeneratePolygon
    /\ PolygonLength(polygon) = 0
    /\ regularity_value = 0

\* the axis-aligned rectangles of Polygons, as <<w, h>>
RectangleSides ==
    {wh \in (1..40) \X (1..40) : Rectangle(wh[1], wh[2]) \in Polygons}

PipelineStages ==
    {"resolve", "geometry", "constraints", "severity", "studies", "lep",
     "slope", "yield", "cdc", "da", "risk", "notes"}

Consumes(st) ==
    CASE st = "resolve" -> {}
      [] st = "geometry" -> {"resolve"}
      [] st = "constraints" -> {"resolve", "geometry"}
      [] st = "severity" -> {"constraints"}
      [] st = "studies" -> {"constraints"}
      [] st = "lep" -> {"resolve", "geometry"}
      [] st = "slope" -> {"resolve", "geometry"}
      [] st = "yield" -> {"resolve", "geometry", "lep", "constraints"}
      [] st = "cdc" -> {"resolve", "geometry", "constraints", "slope"}
      [] st = "da" -> {"resolve", "geometry", "constraints", "slope",
                       "studies"}
      [] st = "risk" -> {"constraints", "severity", "slope", "geometry"}
      [] st = "notes" -> {"lep", "cdc", "da", "yield", "constraints"}

StagesInDependencyOrder ==
    /\ \A st \in PipelineStages :
          status[st] # "pending" =>
              \A d \in Consumes(st) : status[d] = "done"
    /\ status["result"] = "done" =>
          /\ \A st \in PipelineStages : status[st] = "done"
          /\ result # NoResult
    /\ (\E st \in Stages \ {"result"} : status[st] = "raised") =>
          /\ result = NoResult
          /\ status["result"] # "done"

OneStagePerStep ==
    LET changed == {st \in PipelineStages \cup {"result"} :
                       status'[st] # status[st]}
    IN  /\ Cardinality(changed) = 1
        /\ \A st \in changed : status[st] = "pending"

\* C15: in every run of analyse_parcel each stage executes exactly once (a
\* step runs one stage that has not run before, and the result is assembled
\* only when all have run), a stage starts only after every stage whose
\* output it consumes has completed, and no result is returned if a stage
\* raised.
C15_StagesOnceInOrder == []StagesInDependencyOrder /\ [][OneStagePerStep]_vars

C15_Witness ==
    /\ status["result"] = "done"
    /\ \A st \in PipelineStages : status[st] = "done"
    /\ result.da_potential = da_potential
    /\ Len(result.notes) = 3

\* C16: a degenerate parcel polygon (zero perimeter) makes the geometry
\* stage end in an error and no result is produced; the pipeline never
\* continues with regularity 0, frontage 0 and depth 0.
C16_DegeneratePolygonFails ==
    (status["geometry"] # "pending" /\ PolygonLength(polygon) = 0) =>
        /\ status["geometry"] = "raised"
        /\ result = NoResult

\* C18: from the moment they are created, parcel_data, geometry_data,
\* constraints, constraint_severity, the required-studies list, the zoning
\* envelope and typologies and slope_data are never changed by a later
\* stage, and the recommended_studies of the full-application assessment is
\* exactly the constraint-derived study list.
RecordsFrozen ==
    /\ status["resolve"] = "done" => UNCHANGED <<parcel_data, polygon>>
    /\ status["geometry"] = "done" => UNCHANGED geometry_data
    /\ status["constraints"] = "done" => UNCHANGED constraints
    /\ status["severity"] = "done" => UNCHANGED constraint_severity
    /\ status["studies"] = "done" => UNCHANGED required_studies
    /\ status["lep"] = "done" =>
          UNCHANGED <<zone_code, envelope_data, typologies>>
    /\ status["slope"] = "done" => UNCHANGED slope_data

StudiesPassedThrough ==
    /\ status["da"] = "done" =>
          da_potential.recommended_studies = required_studies
    /\ status["result"] = "done" =>
          /\ result.da_potential.recommended_studies = required_studies
          /\ result.parcel = parcel_data
          /\ result.geometry = geometry_data
          /\ result.constraints = constraints
          /\ result.slope = slope_data
          /\ result.envelope = envelope_data

C18_EarlierRecordsUnchanged == []StudiesPassedThrough /\ [][RecordsFrozen]_vars

C18_Witness ==
    /\ status["result"] = "done"
    /\ Len(required_studies) = 8
    /\ result.da_potential.recommended_studies = required_studies

\* every get_settings call of run r so far returned a Settings object
\* holding the default values
HandedDefaults(r) ==
    /\ ~runs[r].raised
    /\ runs[r].call > 1 =>
          /\ runs[r].settings # None
          /\ runs[r].settings.values = DefaultSettings

RunsIndependent ==
    /\ _settings # None => _settings.values = DefaultSettings
    /\ \A r \in DOMAIN runs :
          /\ HandedDefaults(r)
          /\ runs[r].pc = "done" =>
                runs[r].result = analyse_parcel(MockPolygon, MockParcel,
                                                runs[r].constraints)

\* a step of one run changes nothing another run holds, and the settings
\* values, once created, stay what they are
RunsDisjoint ==
    /\ \A r \in DOMAIN runs :
          runs'[r] # runs[r] =>
              \A q \in DOMAIN runs \ {r} : runs'[q] = runs[q]
    /\ _settings # None => _settings'.values = _settings.values

\* C17: for any interleaving of two concurrent analyse_parcel runs, each run
\* returns the result it returns alone; the runs share only the Settings
\* singleton, whose values never change after creation, and every
\* get_settings call, racing first calls included, returns a Settings with
\* the default values, never None.
C17_ConcurrentRunsIndependent == []RunsIndependent /\ [][RunsDisjoint]_vars

\* two runs race through the first get_settings call: both found the global
\* None, one has created and been handed its Settings object, the other is
\* about to create a second one
C17_Witness ==
    /\ DOMAIN runs # {}
    /\ \E r \in DOMAIN runs, q \in DOMAIN runs :
          /\ r # q
          /\ runs[r].call = 2 /\ runs[r].settings = NewSettings
          /\ runs[q].call = 1 /\ runs[q].pc = "create"
          /\ _settings # None

\* the entries of xs whose value did not occur earlier in xs, in order
FirstSeen(xs) ==
    Kept(xs, [i \in 1..Len(xs) |-> \A j \in 1..(i - 1) : xs[j] # xs[i]])

\* the full issue list of the stated check order
FullIssueList ==
    LET c == constraints
    IN  Kept(<<"Bushfire vegetation setback",
               "Flood planning and stormwater management",
               "Heritage significance - strict controls apply",
               "Heritage conservation area - streetscape compatibility",
               "Slope and stormwater",
               "Geotechnical stability",
               "Irregular lot shape - design challenges",
               "Streetscape bulk & scale",
               "Corner lot - secondary street setbacks">>,
             <<c.bushfire_prone,
               c.flood_prone,
               c.heritage_item,
               ~c.heritage_item /\ c.heritage_conservation_area,
               slope_data.mean_gradient_percent > 150,
               c.geotech_landslip_risk \in {"High", "Very High"},
               geometry_data.regularity_index < 750,
               TRUE,
               geometry_data.is_corner_lot>>)

\* C21: the key_issues list evaluate_da_potential returns has no duplicate
\* entries, has at most 5 entries, and is the first 5 entries of the full
\* issue list (check order bushfire, flood, heritage, slope, geotechnical,
\* regularity, bulk & scale, corner lot) deduplicated in first-seen order.
C21_KeyIssuesFirstFiveDistinct ==
    status["da"] = "done" =>
        LET k == da_potential.key_issues
            full == FirstSeen(FullIssueList)
        IN  /\ \A i \in 1..Len(k), j \in 1..Len(k) : k[i] = k[j] => i = j
            /\ Len(k) <= 5
            /\ k = SubSeq(full, 1, Min(5, Len(full)))

C21_Witness ==
    /\ status["da"] = "done"
    /\ Len(FullIssueList) = 8
    /\ Len(da_potential.key_issues) = 5
    /\ da_potential.key_issues[5] = "Geotechnical stability"

\* C22: compute_yield gives dual_occ_feasible, terrace_row_feasible and
\* multi_dwelling_feasible all false when heritage_item is set; otherwise
\* dual_occ_feasible is the dual_occupancy flag with the area and frontage
\* minimums, terrace_row_feasible is the terrace_row flag with
\* fsr_control >= MIN_FSR_TERRACE, and multi_dwelling_feasible is the
\* multi_dwelling flag with fsr_control >= MIN_FSR_MULTI_DWELLING.
C22_FeasibilityFlags ==
    status["yield"] = "done" =>
        IF constraints.heritage_item
        THEN /\ ~yield_data.dual_occ_feasible
             /\ ~yield_data.terrace_row_feasible
             /\ ~yield_data.multi_dwelling_feasible
        ELSE /\ yield_data.dual_occ_feasible <=>
                   /\ typologies.dual_occupancy
                   /\ parcel_data.area_sqm >= 600
                   /\ geometry_data.frontage_m >= 150
             /\ yield_data.terrace_row_feasible <=>
                   /\ typologies.terrace_row
                   /\ envelope_data.fsr_control >= 70
             /\ yield_data.multi_dwelling_feasible <=>
                   /\ typologies.multi_dwelling
                   /\ envelope_data.fsr_control >= 70

C22_Witness ==
    /\ status["yield"] = "done"
    /\ constraints.heritage_item
    /\ typologies.dual_occupancy /\ typologies.terrace_row
    /\ typologies.multi_dwelling
    /\ envelope_data.fsr_control = 70
    /\ parcel_data.area_sqm = 600
    /\ geometry_data.frontage_m = 150
    /\ ~yield_data.terrace_row_feasible

\* C23 as stated: on a parcel that is not a heritage item, whenever dual
\* occupancy is not feasible and the manor_house gate holds (zone R1 or R2,
\* area >= 600), compute_yield returns Manor House with count 3, whatever
\* the maximum building height and FSR.
C23_ManorHouseAnyHeight ==
    (/\ status["yield"] = "done"
     /\ ~constraints.heritage_item
     /\ ~yield_data.dual_occ_feasible
     /\ zone_code \in {"R1", "R2"}
     /\ parcel_data.area_sqm >= 600) =>
        /\ yield_data.primary_typology = "Manor House"
        /\ yield_data.indicative_dwellings_count = 3

\* C23 as amended: the same, provided the maximum building height is at
\* most 8.5 m; with a greater height the result is not Manor House.
C23_ManorHouseUpToHeightLimit ==
    (/\ status["yield"] = "done"
     /\ ~constraints.heritage_item
     /\ ~yield_data.dual_occ_feasible
     /\ zone_code \in {"R1", "R2"}
     /\ parcel_data.area_sqm >= 600) =>
        IF envelope_data.max_height_m <= 85
        THEN /\ yield_data.primary_typology = "Manor House"
             /\ yield_data.indicative_dwellings_count = 3
        ELSE yield_data.primary_typology # "Manor House"

C23_Witness ==
    /\ status["yield"] = "done"
    /\ ~constraints.heritage_item
    /\ zone_code = "R1"
    /\ parcel_data.area_sqm = 600
    /\ geometry_data.frontage_m = 149
    /\ envelope_data.max_height_m = 85
    /\ envelope_data.fsr_control = 100
    /\ yield_data.multi_dwelling_feasible
    /\ yield_data.primary_typology = "Manor House"

\* The category of a specialist report, numbered in the fixed order
\* bushfire, flood, geotechnical, biodiversity, foreshore, heritage.
StudyCategory(study) ==
    CASE study \in {"Bushfire Assessment Report", "BAL Certificate"} -> 1
      [] study \in {"Flood Study", "Flood Impact Assessment"} -> 2
      [] study \in {"Geotechnical Report", "Slope Stability Assessment"} -> 3
      [] study \in {"Biodiversity Assessment", "Flora and Fauna Report"} -> 4
      [] study \in {"Coastal Hazard Assessment",
                    "Foreshore Setback Report"} -> 5
      [] study = "Heritage Impact Statement" -> 6
      [] OTHER -> 0

StudiesIn(studies, cat) ==
    Cardinality({i \in 1..Len(studies) : StudyCategory(studies[i]) = cat})

\* C24: recommend_required_studies lists the reports category by category
\* in the order bushfire, flood, geotechnical, biodiversity, foreshore,
\* heritage: 2 if bushfire prone, 2 if flood prone, 1 for Moderate or 2 for
\* High/Very High geotechnical risk (0 for Low), 2 if biodiversity, 2 if
\* foreshore building line, 1 if heritage item or conservation area; and no
\* report appears twice.
C24_StudiesByCategoryInOrder ==
    status["studies"] = "done" =>
        LET s == required_studies
            c == constraints
            g == c.geotech_landslip_risk
        IN  /\ \A i \in 1..Len(s) : StudyCategory(s[i]) \in 1..6
            /\ \A i, j \in 1..Len(s) :
                  i < j => StudyCategory(s[i]) <= StudyCategory(s[j])
            /\ \A i, j \in 1..Len(s) : i # j => s[i] # s[j]
            /\ StudiesIn(s, 1) = (IF c.bushfire_prone THEN 2 ELSE 0)
            /\ StudiesIn(s, 2) = (IF c.flood_prone THEN 2 ELSE 0)
            /\ StudiesIn(s, 3) = (IF g \in {"High", "Very High"} THEN 2
                                  ELSE IF g = "Moderate" THEN 1 ELSE 0)
            /\ StudiesIn(s, 4) = (IF c.biodiversity THEN 2 ELSE 0)
            /\ StudiesIn(s, 5) = (IF c.foreshore_building_line THEN 2 ELSE 0)
            /\ StudiesIn(s, 6) =
                  (IF c.heritage_item \/ c.heritage_conservation_area
                   THEN 1 ELSE 0)

C24_Witness ==
    /\ status["studies"] = "done"
    /\ constraints.heritage_item /\ constraints.heritage_conservation_area
    /\ constraints.geotech_landslip_risk = "Very High"
    /\ Len(required_studies) = 11
    /\ required_studies[11] = "Heritage Impact Statement"

\* C28: compute_constraint_severity returns a severity record without
\* raising for every constraint set of the shape evaluate_constraints
\* produces, including bushfire_prone with a null bushfire_category, where
\* bushfire_severity is 1.
C28_NullCategoryScoredOne ==
    /\ status["severity"] # "raised"
    /\ (/\ status["severity"] = "done"
        /\ constraints.bushfire_prone
        /\ constraints.bushfire_category = None) =>
           constraint_severity.bushfire_severity = 1

\* C29: the overall risk rating of compute_risk_rating is never a less
\* severe tier than the rating compute_constraint_severity gave the same
\* constraints (None < Low < Medium < High < Red-Flag), and the two are
\* equal whenever mean gradient <= 15 and regularity_index >= 0.75.
C29_RiskNotBelowSeverity ==
    status["risk"] = "done" =>
        /\ RatingRank(overall_risk_rating)
              >= RatingRank(constraint_severity.rating)
        /\ (/\ slope_data.mean_gradient_percent <= 150
            /\ geometry_data.regularity_index >= 750) =>
               overall_risk_rating = constraint_severity.rating

C29_Witness ==
    /\ status["risk"] = "done"
    /\ slope_data.mean_gradient_percent = 150
    /\ geometry_data.regularity_index = 750
    /\ constraint_severity.total_score = 7
    /\ overall_risk_rating = "Medium"

\* C30: with the default thresholds (MIN_FSR_TERRACE = MIN_FSR_MULTI_DWELLING
\* = 0.7) and the typology flags of determine_allowed_typologies,
\* terrace_row_feasible and multi_dwelling_feasible are always equal, and
\* compute_yield never returns primary typology "Terrace/Row Housing".
C30_TerraceNeverPrimary ==
    (status["typologies"] = "done" /\ status["yield"] = "done") =>
        /\ yield_data.terrace_row_feasible = yield_data.multi_dwelling_feasible
        /\ yield_data.primary_typology # "Terrace/Row Housing"

C30_Witness ==
    /\ status["typologies"] = "done"
    /\ status["yield"] = "done"
    /\ zone_code = "R3"
    /\ parcel_data.area_sqm = 450
    /\ yield_data.terrace_row_feasible
    /\ yield_data.multi_dwelling_feasible
    /\ yield_data.primary_typology = "Multi-Dwelling Housing"

\* the distance between two directions around the circle, in degrees
CircularDistance(a, b) ==
    LET d == (a - b) % 360
    IN  IF d <= 180 THEN d ELSE 360 - d

\* C27: compute_slope_metrics gives falls_to_street true exactly when a
\* front orientation is supplied and the circular distance between
\* primary_fall_direction_deg and (front orientation + 90) mod 360 is at
\* most 45 degrees, false when none is supplied, and
\* max_gradient_percent >= mean_gradient_percent in every result.
C27_FallsToStreet ==
    status["slope"] = "done" =>
        LET front == slope_args.front_orientation_deg
        IN  /\ slope_data.falls_to_street <=>
                  /\ ~front.none
                  /\ CircularDistance(slope_data.primary_fall_direction_deg,
                                      (front.value + 90) % 360) <= 45
            /\ front.none => ~slope_data.falls_to_street
            /\ slope_data.max_gradient_percent
                  >= slope_data.mean_gradient_percent

C27_Witness ==
    /\ status["slope"] = "done"
    /\ ~slope_args.dem_data.none
    /\ slope_args.front_orientation_deg = Arg(135)
    /\ slope_data.falls_to_street

\* the distance between two bearings around the circle, both in
\* hundredths of a degree
BearingDistance(a, b) ==
    LET d == (a - b) % 36000
    IN  IF d <= 18000 THEN d ELSE 36000 - d

RECURSIVE TotalLength(_, _)
TotalLength(segments, idxs) ==
    IF idxs = {} THEN 0
    ELSE LET i == CHOOSE j \in idxs : TRUE
         IN  segments[i].length + TotalLength(segments, idxs \ {i})

\* C25: identify_boundaries takes as front an edge whose midpoint has the
\* minimum north coordinate, as rear another edge whose bearing is closest
\* around the circle to the front bearing + 180, as left sides the
\* remaining edges whose midpoint x is less than the front midpoint x and
\* as right sides the others; frontage_m is the front edge length and
\* depth_m the mean of the left and right total lengths (0 when both are
\* empty); each edge is front, rear, left or right and only one of them.
C25_BoundaryAssignment ==
    status["boundaries"] = "done" =>
        LET segments == Segments(polygon)
            edges == 1..Len(segments)
            assigned == AssignSegments(segments)
        IN  /\ \E f \in edges : \E r \in edges \ {f} :
                  LET rest == edges \ {f, r}
                      left == {i \in rest :
                                  segments[i].mid_x2 < segments[f].mid_x2}
                      right == {i \in rest :
                                   segments[i].mid_x2 >= segments[f].mid_x2}
                      left_total == TotalLength(segments, left)
                      right_total == TotalLength(segments, right)
                  IN  /\ \A j \in edges :
                            segments[f].mid_y2 <= segments[j].mid_y2
                      /\ \A j \in edges \ {f} :
                            BearingDistance(segments[r].bearing,
                                            segments[f].bearing + 18000)
                              <= BearingDistance(segments[j].bearing,
                                                 segments[f].bearing + 18000)
                      /\ assigned.southernmost_idx = f
                      /\ assigned.rear_idx = r
                      /\ assigned.left_segments = left
                      /\ assigned.right_segments = right
                      /\ boundaries.front.length_m
                            = RoundHalfEven(segments[f].length, 10)
                      /\ boundaries.frontage_m = boundaries.front.length_m
                      /\ boundaries.rear.length_m
                            = RoundHalfEven(segments[r].length, 10)
                      /\ boundaries.sides[1].length_m
                            = RoundHalfEven(left_total, 10)
                      /\ boundaries.sides[2].length_m
                            = RoundHalfEven(right_total, 10)
                      /\ boundaries.depth_m
                            = IF left = {} /\ right = {} THEN 0
                              ELSE RoundHalfEven(left_total + right_total, 20)
            /\ \A i \in edges :
                  Cardinality({k \in 1..4 :
                      i \in <<{assigned.southernmost_idx},
                              {assigned.rear_idx},
                              assigned.left_segments,
                              assigned.right_segments>>[k]}) = 1

C25_Witness ==
    /\ status["boundaries"] = "done"
    /\ polygon = LShapePolygon
    /\ boundaries.frontage_m = 100
    /\ boundaries.rear.length_m = 50
    /\ boundaries.sides[1].length_m = 150
    /\ boundaries.sides[2].length_m = 100
    /\ boundaries.depth_m = 125

\* C26: every bearing identify_boundaries reports (front, rear and both
\* side orientation_deg values, after rounding) lies in [0, 360), for
\* every polygon, and compute_bearing returns a value in [0, 360) for
\* every edge.
C26_BearingsBelow360 ==
    status["boundaries"] = "done" =>
        /\ boundaries.front.orientation_deg \in 0..359
        /\ boundaries.rear.orientation_deg \in 0..359
        /\ \A k \in 1..2 : boundaries.sides[k].orientation_deg \in 0..359
        /\ \A i \in 1..(Len(polygon) - 1) :
              compute_bearing(polygon[i], polygon[i + 1]) \in 0..35999

====
